---- MODULE Spec2Model ----
(***************************************************************************)
(* A model of the Wordle analysis engine of mercere99/WordlePlay:          *)
(*   Result            (src/Result.hpp)                                    *)
(*   IDSet, IDGroups, MultiGroup, WordleEngine (src/WordleEngine.hpp)      *)
(*   WordleDriver      (src/Wordle-CommandLine.cpp)                        *)
(* Words and strings are sequences of one-character strings; word ids are  *)
(* 0-based as in the source, so the word with id i is words[i+1].          *)
(***************************************************************************)
EXTENDS Integers, Sequences, FiniteSets

VARIABLES
  word_size,        \* WordleEngine::word_size (and WordleDriver::word_size)
  words,            \* WordleEngine::words[i].word
  next_words,       \* WordleEngine::words[i].next_words (IDGroups)
  stats,            \* WordleEngine::words[i].stats (GroupStats)
  pos_clues,        \* WordleEngine::pos_clues
  let_clues,        \* WordleEngine::let_clues
  id_map,           \* WordleEngine::id_map
  cur_options,      \* WordleEngine::cur_options
  clues_ok,         \* WordleEngine::clues_ok
  words_ok,         \* WordleEngine::words_ok
  stats_ok,         \* WordleEngine::stats_ok
  words_processed,  \* WordleEngine::words_processed
  beyond,           \* what lies past the end of a letter's at_least / exactly
  clues,            \* WordleDriver::clues
  error,            \* what the last command passed to WordleDriver::Error
  result,           \* a Result object under construction / test
  guess,            \* the guess the Result object was built from
  answer,           \* the answer the Result object was built from
  in_str,           \* the result string the Result object was built from
  lookup_size,      \* the result_size the Result object gave LookupResult
  multi,            \* a MultiGroup (combo_ids)
  multi_words,      \* the ids of the words added to the MultiGroup so far
  sort_type,        \* the sort type of the last listing ("": none yet)
  out_words,        \* the IDList the last listing got from SortWords
  loaded_words,     \* the vector in_words given to the last Load
  load_counts,      \* the counters of the last Load when its loop ended
  search_mode,      \* the search that was run ("": none yet)
  searched,         \* the combinations of word ids the search evaluated, in order
  best_stats,       \* GroupStats best_stats of the search when it ended
  pp_size,          \* WordSet::words.size() of the legacy engine
  pp_stage,         \* WordSet::pp_stage
  pp_id_next,       \* WordSet::pp_id_next
  pp_progress,      \* WordSet::pp_progress
  pp_analysed,      \* the ids of the words given to AnalyzeGuess, in order
  pp_returned,      \* what the last call of WordSet::Preprocess returned
  grid_words,       \* web WordleDriver::words, a grid of characters
  status,           \* web WordleDriver::status
  active_row,       \* web WordleDriver::active_row
  active_col,       \* web WordleDriver::active_col
  full_rows,        \* web WordleDriver::full_rows
  needs_update,     \* web WordleDriver::needs_update
  message,          \* web WordleDriver::message
  accessed,         \* the cells the last event read or wrote as the active cell
  event_count,      \* the events of the web front end so far
  pc,               \* position of the commit/pop/commit scenario
  snap              \* CandidateSet and ClueStack recorded by the scenario

vars == << word_size, words, next_words, stats, pos_clues, let_clues, id_map,
           cur_options, clues_ok, words_ok, stats_ok, words_processed, beyond,
           clues, error, result, guess, answer, in_str, lookup_size, multi,
           multi_words, sort_type, out_words, loaded_words, load_counts,
           search_mode, searched, best_stats,
           pp_size, pp_stage, pp_id_next, pp_progress, pp_analysed, pp_returned,
           grid_words, status, active_row, active_col, full_rows,
           needs_update, message, accessed, event_count,
           pc, snap >>

engine_vars == << word_size, words, next_words, stats, pos_clues, let_clues,
                  id_map, cur_options, clues_ok, words_ok, stats_ok,
                  words_processed, beyond >>

driver_vars == << clues, error >>

result_vars == << result, guess, answer, in_str, lookup_size >>

multi_vars == << multi, multi_words >>

sort_vars == << sort_type, out_words >>

load_vars == << loaded_words, load_counts >>

search_vars == << search_mode, searched, best_stats >>

legacy_vars == << pp_size, pp_stage, pp_id_next, pp_progress, pp_analysed,
                  pp_returned >>

web_vars == << grid_words, status, active_row, active_col, full_rows,
               needs_update, message, accessed, event_count >>

scenario_vars == << pc, snap >>

-----------------------------------------------------------------------------
(* Bounds of the model *)

\* longest result / word handled by the Result specification
MaxLen == 3

\* deepest clue stack explored
MaxClues == 2

\* longest list of guesses given to joint scoring
MaxGuesses == 5

\* most words in the word lists that the load specification enumerates
MaxWords == 3

\* the alphabet the words are drawn from
Letters == {"a", "b", "c"}

-----------------------------------------------------------------------------
(* Result.hpp *)

MAX_WORD_SIZE == 15

NOWHERE == 0

ELSEWHERE == 1

HERE == 2

NONE == 3

RECURSIVE Pow(_, _)
Pow(base, p) == IF p <= 0 THEN 1 ELSE base * Pow(base, p - 1)

CalcNumIDs(result_size) == Pow(3, result_size)

\* the decoding loop of LookupResult for the positions pos-1, ..., 0
RECURSIVE LookupDigits(_, _)
LookupDigits(pos, tmp_id) ==
  IF pos = 0 THEN << >>
  ELSE LET magnitude  == Pow(3, pos - 1)
           cur_result == tmp_id \div magnitude
       IN  Append(LookupDigits(pos - 1, tmp_id - cur_result * magnitude),
                  cur_result)

\* most-significant-digit-first variant of the decoding loop
RECURSIVE LookupDigitsReversed(_, _)
LookupDigitsReversed(pos, tmp_id) ==
  IF pos = 0 THEN << >>
  ELSE LET magnitude  == Pow(3, pos - 1)
           cur_result == tmp_id \div magnitude
       IN  << cur_result >> \o
           LookupDigitsReversed(pos - 1, tmp_id - cur_result * magnitude)

LookupResultReversed(result_size, result_id) ==
  LookupDigitsReversed(result_size, result_id)

LookupResult(result_size, result_id) == LookupDigits(result_size, result_id)

\* CalcID that takes the first position as the most significant digit
CalcIDReversed(results) ==
  LET RECURSIVE Sum(_, _)
      Sum(i, base) == IF i < 1 THEN 0
                      ELSE results[i] * base + Sum(i - 1, base * 3)
  IN  Sum(Len(results), 1)

RECURSIVE CalcIDFrom(_, _, _)
CalcIDFrom(results, i, base) ==
  IF i > Len(results) THEN 0
  ELSE results[i] * base + CalcIDFrom(results, i + 1, base * 3)

CalcID(results) == CalcIDFrom(results, 1, 1)

\* Result() : the default constructor
DefaultResult == [results |-> << >>, id |-> 0]

\* Result(result_size, id)
ResultFromID(result_size, id) ==
  [results |-> LookupResult(result_size, id), id |-> id]

\* Result(result_size, id) as an object of its own: result_matrix has the
\* elements 0, ..., MAX_WORD_SIZE - 1 and the index is checked by an assert
\* that release builds leave out, so a larger result_size reads what lies
\* past the array (undefined behaviour: the table may read as the right one
\* or as one whose entry is empty)
ResultsFromID(result_size, id) ==
  IF result_size < MAX_WORD_SIZE THEN {ResultFromID(result_size, id)}
  ELSE {ResultFromID(result_size, id), [results |-> << >>, id |-> id]}

\* Result(results)
ResultFromResults(results) == [results |-> results, id |-> CalcID(results)]

\* the character switch without its lower-case labels
CharResultUpper(ch) ==
  CASE ch = "N" -> NOWHERE
    [] ch = "E" -> ELSEWHERE
    [] ch = "H" -> HERE
    [] OTHER    -> NONE

\* the character switch of FromString
CharResult(ch) ==
  CASE ch \in {"N", "n"} -> NOWHERE
    [] ch \in {"E", "e"} -> ELSEWHERE
    [] ch \in {"H", "h"} -> HERE
    [] OTHER             -> NONE

\* Result(result_str)
FromString(result_str) ==
  ResultFromResults([i \in 1..Len(result_str) |-> CharResult(result_str[i])])

\* first loop of Result(guess, answer): the answer positions used by a HERE
PerfectMatches(g, a) == {j \in 1..Len(g) : g[j] = a[j]}

\* the inner loop: the first unused answer position holding letter c (0: none)
SeekElsewhere(c, a, used) ==
  LET found == {j \in 1..Len(a) : j \notin used /\ a[j] = c}
  IN  IF found = {} THEN 0 ELSE CHOOSE j \in found : \A k \in found : j <= k

\* second loop of Result(guess, answer), from guess position i on
RECURSIVE OffsetMatches(_, _, _, _)
OffsetMatches(g, a, i, used) ==
  IF i > Len(g) THEN << >>
  ELSE IF g[i] = a[i] THEN << HERE >> \o OffsetMatches(g, a, i + 1, used)
  ELSE LET j == SeekElsewhere(g[i], a, used)
       IN  IF j # 0
           THEN << ELSEWHERE >> \o OffsetMatches(g, a, i + 1, used \cup {j})
           ELSE << NOWHERE >> \o OffsetMatches(g, a, i + 1, used)

\* the second loop without the "used" bookkeeping: an answer letter can be
\* matched by several guess positions
RECURSIVE OffsetMatchesNoUse(_, _, _, _)
OffsetMatchesNoUse(g, a, i, used) ==
  IF i > Len(g) THEN << >>
  ELSE IF g[i] = a[i] THEN << HERE >> \o OffsetMatchesNoUse(g, a, i + 1, used)
  ELSE LET j == SeekElsewhere(g[i], a, used)
       IN  IF j # 0
           THEN << ELSEWHERE >> \o OffsetMatchesNoUse(g, a, i + 1, used)
           ELSE << NOWHERE >> \o OffsetMatchesNoUse(g, a, i + 1, used)

CompareNoUse(g, a) == OffsetMatchesNoUse(g, a, 1, PerfectMatches(g, a))

\* the results array when the loops run from the last position to the first
CompareBackward(g, a) ==
  LET Rev(str) == [i \in 1..Len(str) |-> str[Len(str) + 1 - i]]
  IN  Rev(OffsetMatches(Rev(g), Rev(a), 1, PerfectMatches(Rev(g), Rev(a))))

\* the results array filled by Result(guess, answer)
Compare(g, a) == OffsetMatches(g, a, 1, PerfectMatches(g, a))

\* Result(guess, answer)
ResultFromPair(g, a) == ResultFromResults(Compare(g, a))

\* Result::ToString with the default arguments
ResultToString(r) ==
  LET Ch(x) == CASE x = HERE      -> << "H" >>
                 [] x = ELSEWHERE -> << "E" >>
                 [] x = NOWHERE   -> << "N" >>
                 [] OTHER         -> << >>
      RECURSIVE Out(_)
      Out(i) == IF i > Len(r.results) THEN << >>
                ELSE Ch(r.results[i]) \o Out(i + 1)
  IN  Out(1)

\* IsValid that compares every pair of positions, whatever their order
IsValidStrict(r, word) ==
  /\ Len(word) = Len(r.results)
  /\ \A pos \in 1..Len(r.results) :
       r.results[pos] = NOWHERE =>
         \A pos2 \in 1..Len(r.results) :
           ~(r.results[pos2] = ELSEWHERE /\ word[pos] = word[pos2])

\* Result::IsValid
IsValid(r, word) ==
  /\ Len(word) = Len(r.results)
  /\ \A pos \in 1..(Len(r.results) - 1) :
       r.results[pos] = NOWHERE =>
         \A pos2 \in (pos + 1)..Len(r.results) :
           ~(r.results[pos2] = ELSEWHERE /\ word[pos] = word[pos2])

\* Result::operator==
ResultEq(r1, r2) == Len(r1.results) = Len(r2.results) /\ r1.id = r2.id

-----------------------------------------------------------------------------
(* WordleEngine.hpp : IDSet, GroupStats, IDGroups *)

\* An IDSet is modelled by the set of the ids whose bit is one.

Min(s) == CHOOSE x \in s : \A y \in s : x <= y

\* IDSet::GetSorted() : the ids in ascending order; the id at position i
\* is the one with i - 1 smaller ids in the set
GetSorted(s) ==
  CHOOSE sorted \in
    {[i \in 1..Cardinality(v) |->
        CHOOSE x \in v : Cardinality({y \in v : y < x}) = i - 1] : v \in {s}} :
    TRUE

\* IDSet::Resize : bits at or above the new size are dropped, others kept
Resize(s, count) == {id \in s : id < count}

\* IDSet::SetAll(count) and IDSet(count)
AllIDs(count) == 0..(count - 1)

\* A double that is the quotient of two counts is kept as << num, den >>.
Ratio(num, den) == << num, den >>

\* GroupStats with its default member initialisers; the entropy is kept as
\* the list of the group sizes with p > 0 and the count they are divided by
NewGroupStats ==
  [max_options |-> 0, ave_options |-> Ratio(0, 1),
   entropy |-> [sizes |-> << >>, total |-> 1], solve_p |-> Ratio(0, 1)]

\* IDGroups() : the default constructor
NewIDGroups == [ids |-> << >>, starts |-> << >>, num_ids |-> 0]

\* IDGroups::Reset : ids is resized (old entries kept, zero padded)
GroupsReset(g, in_size) ==
  [ids     |-> [i \in 1..in_size |-> IF i <= Len(g.ids) THEN g.ids[i] ELSE 0],
   starts  |-> << >>,
   num_ids |-> 0]

\* the loop of AddGroup over the ids of the new group, in ascending order;
\* a store at a position past the end of ids does not reach the vector
StoreIDs(ids, num_ids, id_list) ==
  CHOOSE stored \in
    {[ids     |-> [i \in 1..Len(v) |->
                     IF num_ids < i /\ i <= num_ids + Len(l)
                     THEN l[i - num_ids] ELSE v[i]],
      num_ids |-> num_ids + Len(l)] : v \in {ids}, l \in {id_list}} :
    TRUE

\* IDGroups::AddGroup
AddGroup(g, new_group) ==
  CHOOSE added \in
    {[ids     |-> stored.ids,
      starts  |-> Append(old.starts, old.num_ids),
      num_ids |-> stored.num_ids] :
       << old, stored >> \in
         {<< v, StoreIDs(v.ids, v.num_ids, GetSorted(new_group)) >> :
            v \in {g}}} :
    TRUE

\* the start and end position of a group in ids (0-based, end exclusive)
GroupStart(g, group_id) == g.starts[group_id + 1]

GroupEnd(g, group_id) ==
  IF group_id + 1 < Len(g.starts) THEN g.starts[group_id + 2] ELSE Len(g.ids)

\* IDGroups::GetGroup
GetGroup(g, group_id) ==
  {g.ids[i + 1] : i \in GroupStart(g, group_id)..(GroupEnd(g, group_id) - 1)}

\* the body shared by the loops of the CalcStats functions, for one group size
NextStats(acc, cur_size) ==
  [max_options |-> IF cur_size > acc.max_options
                   THEN cur_size ELSE acc.max_options,
   total       |-> acc.total + cur_size * cur_size,
   solve_count |-> IF cur_size = 1 THEN acc.solve_count + 1
                   ELSE acc.solve_count,
   sizes       |-> IF cur_size > 0 THEN Append(acc.sizes, cur_size)
                   ELSE acc.sizes]

\* the loop of the CalcStats functions over the groups lo, ..., hi - 1, run as
\* its first half followed by its second half.  max_options is never
\* negative: reading it makes the sums so far a value before the loop goes on.
RECURSIVE AccumulateStats(_, _, _, _)
AccumulateStats(sizes, lo, hi, acc) ==
  IF hi <= lo \/ acc.max_options < 0 THEN acc
  ELSE IF hi = lo + 1
  THEN CHOOSE next \in {NextStats(v, cur_size) :
                          v \in {acc}, cur_size \in {sizes[lo]}} : TRUE
  ELSE LET mid == (lo + hi) \div 2
       IN  CHOOSE done \in
             {AccumulateStats(sizes, mid, hi, first) :
                first \in {AccumulateStats(sizes, lo, mid, acc)}} : TRUE

\* the stats of a list of group sizes, each sum divided by total_count
StatsOfSizes(sizes, total_count) ==
  CHOOSE group_stats \in
    {[max_options |-> acc.max_options,
      ave_options |-> Ratio(acc.total, total_count),
      entropy     |-> [sizes |-> acc.sizes, total |-> total_count],
      solve_p     |-> Ratio(acc.solve_count, total_count)] :
       acc \in {AccumulateStats(v, 1, Len(v) + 1,
                   [max_options |-> 0, total |-> 0, solve_count |-> 0,
                    sizes |-> << >>]) : v \in {sizes}}} :
    TRUE

\* IDGroups::CalcStats()
CalcStats(g) ==
  StatsOfSizes([k \in 1..Len(g.starts) |->
                  GroupEnd(g, k - 1) - GroupStart(g, k - 1)], Len(g.ids))

\* CalcStats(filter_set) that divides by the number of all ids
CalcStatsOverAll(g, filter_set) ==
  StatsOfSizes([k \in 1..Len(g.starts) |->
                  Cardinality(GetGroup(g, k - 1) \cap filter_set)],
               Len(g.ids))

\* IDGroups::CalcStats(filter_set)
CalcStatsFiltered(g, filter_set) ==
  StatsOfSizes([k \in 1..Len(g.starts) |->
                  Cardinality(GetGroup(g, k - 1) \cap filter_set)],
               Cardinality(filter_set))

-----------------------------------------------------------------------------
(* WordleEngine.hpp : MultiGroup *)

\* A combo id is a 64-bit word, kept as its four 16-bit fields, most
\* significant first: << f3, f2, f1, f0 >> is f3*2^48 + f2*2^32 + f1*2^16 + f0.
UINT16 == 65536

ZeroCombo == << 0, 0, 0, 0 >>

\* combo <<= 16 ; combo += group_id   (group_id is a uint16_t)
ShiftAdd(combo, group_id) ==
  << combo[2], combo[3], combo[4], group_id % UINT16 >>

\* the while loop of MultiGroup::Add : the first group at or after group_id
\* that position i of ids is in
FindGroup(groups, group_id, i) ==
  Min({g \in group_id..Len(groups.starts) :
         ~(g + 1 < Len(groups.starts) /\ groups.starts[g + 2] <= i)})

\* the for loop of MultiGroup::Add, from position i of groups.ids on
RECURSIVE AddFrom(_, _, _, _)
AddFrom(combo_ids, groups, i, group_id) ==
  IF i >= Len(groups.ids) THEN combo_ids
  ELSE LET gid == FindGroup(groups, group_id, i)
           id  == groups.ids[i + 1]
       IN  AddFrom([combo_ids EXCEPT ![id + 1] = ShiftAdd(@, gid)],
                   groups, i + 1, gid)

\* MultiGroup::Add
MultiAdd(combo_ids, groups) ==
  AddFrom(IF Len(combo_ids) = 0
          THEN [i \in 1..Len(groups.ids) |-> ZeroCombo]
          ELSE combo_ids,
          groups, 0, 0)

\* the numerical order of two combo ids
ComboLess(c1, c2) ==
  \E k \in 1..4 : c1[k] < c2[k] /\ \A j \in 1..(k - 1) : c1[j] = c2[j]

\* the distinct values of the sorted combo_ids, in ascending order
RECURSIVE SortCombos(_)
SortCombos(s) ==
  IF s = {} THEN << >>
  ELSE LET lo == CHOOSE c \in s : \A d \in s \ {c} : ComboLess(c, d)
       IN  << lo >> \o SortCombos(s \ {lo})

\* MultiGroup::CalcStats : the run lengths of the sorted combo_ids
MultiCalcStats(combo_ids) ==
  LET values == SortCombos({combo_ids[i] : i \in 1..Len(combo_ids)})
      sizes  == [k \in 1..Len(values) |->
                   Cardinality({i \in 1..Len(combo_ids) :
                                  combo_ids[i] = values[k]})]
  IN  StatsOfSizes(sizes, Len(combo_ids))

-----------------------------------------------------------------------------
(* WordleEngine.hpp : WordleEngine *)

MAX_LETTER_REPEAT == 4

NumLetters == 26

\* words are re-examined in chunks of this many by ProcessWords
ChunkSize == 100

Alphabet == << "a", "b", "c", "d", "e", "f", "g", "h", "i", "j", "k", "l", "m",
               "n", "o", "p", "q", "r", "s", "t", "u", "v", "w", "x", "y", "z" >>

UpperAlphabet ==
  << "A", "B", "C", "D", "E", "F", "G", "H", "I", "J", "K", "L", "M",
     "N", "O", "P", "Q", "R", "S", "T", "U", "V", "W", "X", "Y", "Z" >>

IsLowerLetter(ch) == \E i \in 1..NumLetters : Alphabet[i] = ch

IsLetter(ch) ==
  \E i \in 1..NumLetters : Alphabet[i] = ch \/ UpperAlphabet[i] = ch

\* WordleEngine::ToID
ToID(letter) ==
  IF \E i \in 1..NumLetters : Alphabet[i] = letter
  THEN (CHOOSE i \in 1..NumLetters : Alphabet[i] = letter) - 1
  ELSE IF \E i \in 1..NumLetters : UpperAlphabet[i] = letter
  THEN (CHOOSE i \in 1..NumLetters : UpperAlphabet[i] = letter) - 1
  ELSE 26

LetterIDs == 0..(NumLetters - 1)

\* the engine as a record of its data members
Engine ==
  [word_size |-> word_size, words |-> words, next_words |-> next_words,
   stats |-> stats, pos_clues |-> pos_clues, let_clues |-> let_clues,
   id_map |-> id_map, cur_options |-> cur_options, clues_ok |-> clues_ok,
   words_ok |-> words_ok, stats_ok |-> stats_ok,
   words_processed |-> words_processed, beyond |-> beyond]

\* the next state of the engine's data members
SetEngine(e) ==
  \E v \in {e} :
    /\ word_size' = v.word_size
    /\ words' = v.words
    /\ next_words' = v.next_words
    /\ stats' = v.stats
    /\ pos_clues' = v.pos_clues
    /\ let_clues' = v.let_clues
    /\ id_map' = v.id_map
    /\ cur_options' = v.cur_options
    /\ clues_ok' = v.clues_ok
    /\ words_ok' = v.words_ok
    /\ stats_ok' = v.stats_ok
    /\ words_processed' = v.words_processed
    /\ beyond' = v.beyond

NumWords(e) == Len(e.words)

\* WordleEngine::GetAllOptions
GetAllOptions(e) == AllIDs(NumWords(e))

\* WordleEngine(_word_size) with the default member initialisers, built
\* where the memory past the arrays of a LetterClues reads as the set mem
NewEngine(in_size, mem) ==
  [word_size |-> in_size, words |-> << >>, next_words |-> << >>,
   stats |-> << >>,
   pos_clues |-> [p \in 1..in_size |-> [l \in LetterIDs |-> {}]],
   let_clues |-> [l \in LetterIDs |->
                    [at_least |-> [k \in 0..MAX_LETTER_REPEAT |-> {}],
                     exactly  |-> [k \in 0..MAX_LETTER_REPEAT |-> {}]]],
   id_map |-> << >>, cur_options |-> {}, clues_ok |-> TRUE,
   words_ok |-> TRUE, stats_ok |-> TRUE, words_processed |-> 0,
   beyond |-> mem]

\* let_clues[letter_id].at_least[count] : the array has the elements
\* 0, ..., MAX_LETTER_REPEAT and the index is not checked, so a larger count
\* reads what lies past the array (undefined behaviour: any set of ids)
AtLeast(e, letter_id, count) ==
  IF count <= MAX_LETTER_REPEAT THEN e.let_clues[letter_id].at_least[count]
  ELSE e.beyond

\* let_clues[letter_id].exactly[count], read in the same way
Exactly(e, letter_id, count) ==
  IF count <= MAX_LETTER_REPEAT THEN e.let_clues[letter_id].exactly[count]
  ELSE e.beyond

\* the number of times the letter with this id occurs in the word
LetterCount(word, letter_id) ==
  Cardinality({p \in 1..Len(word) : ToID(word[p]) = letter_id})

\* WordleEngine::ProcessClues ; for a word that holds a letter more than
\* MAX_LETTER_REPEAT times the Add calls with the larger counts write past
\* the arrays and leave the elements 0, ..., MAX_LETTER_REPEAT as they are
ProcessClues(e) ==
  LET n == NumWords(e)
  IN  [e EXCEPT
        !.pos_clues = [p \in 1..e.word_size |-> [l \in LetterIDs |->
           Resize(e.pos_clues[p][l], n) \cup
           {id \in 0..(n - 1) : ToID(e.words[id + 1][p]) = l}]],
        !.let_clues = [l \in LetterIDs |->
           [at_least |-> [k \in 0..MAX_LETTER_REPEAT |->
              Resize(e.let_clues[l].at_least[k], n) \cup
              {id \in 0..(n - 1) :
                 k >= 1 /\ LetterCount(e.words[id + 1], l) >= k}],
            exactly |-> [k \in 0..MAX_LETTER_REPEAT |->
              Resize(e.let_clues[l].exactly[k], n) \cup
              {id \in 0..(n - 1) : LetterCount(e.words[id + 1], l) = k}]]],
        !.clues_ok = TRUE]

\* the letter bookkeeping of the first loop of ProcessResultGroup
ClueLetterCount(guess_word, res, letter_id) ==
  Cardinality({i \in 1..Len(guess_word) :
                 /\ ToID(guess_word[i]) = letter_id
                 /\ res.results[i] \in {HERE, ELSEWHERE}})

ClueLetterFail(guess_word, res, letter_id) ==
  \E i \in 1..Len(guess_word) :
     /\ ToID(guess_word[i]) = letter_id
     /\ res.results[i] \notin {HERE, ELSEWHERE}

\* the sets ProcessResultGroup collects in intersect_sets
IntersectSets(e, guess_word, res) ==
  {e.pos_clues[i][ToID(guess_word[i])] :
     i \in {k \in 1..e.word_size : res.results[k] = HERE}}
  \cup
  {Exactly(e, l, ClueLetterCount(guess_word, res, l)) :
     l \in {k \in LetterIDs : ClueLetterFail(guess_word, res, k)}}
  \cup
  {AtLeast(e, l, ClueLetterCount(guess_word, res, l)) :
     l \in {k \in LetterIDs : /\ ~ClueLetterFail(guess_word, res, k)
                              /\ ClueLetterCount(guess_word, res, k) > 0}}

\* the sets ProcessResultGroup collects in exclude_sets
ExcludeSets(e, guess_word, res) ==
  {e.pos_clues[i][ToID(guess_word[i])] :
     i \in {k \in 1..e.word_size : res.results[k] # HERE}}

\* WordleEngine::ProcessResultGroup
ProcessResultGroup(e, guess_word, res) ==
  UNION {{id \in UNION intersect_sets :
            \A s \in intersect_sets : id \in s} :
           intersect_sets \in {IntersectSets(e, guess_word, res)}}
  \ UNION ExcludeSets(e, guess_word, res)

\* the body of the loop of ProcessWords over the result ids
NextResultGroup(e, guess_word, groups, result_id) ==
  CHOOSE next \in
    {AddGroup(groups, IF IsValid(res, guess_word)
                      THEN ProcessResultGroup(e, guess_word, res)
                      ELSE {}) :
       res \in {ResultFromID(e.word_size, result_id)}} :
    TRUE

\* the loop of ProcessWords over the result ids lo, ..., hi - 1, run as its
\* first half followed by its second half.  num_ids is never negative: reading
\* it makes the groups built so far a value before the loop goes on, as they
\* are in the iterative loop of the source.
RECURSIVE AddResultGroups(_, _, _, _, _)
AddResultGroups(e, guess_word, groups, lo, hi) ==
  IF hi <= lo \/ groups.num_ids < 0 THEN groups
  ELSE IF hi = lo + 1 THEN NextResultGroup(e, guess_word, groups, lo)
  ELSE LET mid == (lo + hi) \div 2
       IN  CHOOSE done \in
             {AddResultGroups(e, guess_word, first, mid, hi) :
                first \in {AddResultGroups(e, guess_word, groups, lo, mid)}} :
             TRUE

\* the body of the while loop of ProcessWords for one word
BuildNextWords(e, word_id) ==
  AddResultGroups(e, e.words[word_id + 1],
                  GroupsReset(e.next_words[word_id + 1], NumWords(e)),
                  0, CalcNumIDs(e.word_size))

\* ProcessWords that resumes one word after the word it stopped at
ProcessWordsSkip(e) ==
  LET n     == NumWords(e)
      first == e.words_processed
      full  == n - first >= ChunkSize
      last  == IF full THEN first + ChunkSize ELSE n
  IN  [e EXCEPT
        !.next_words = [i \in 1..n |->
                          IF first < i /\ i <= last
                          THEN BuildNextWords(e, i - 1)
                          ELSE e.next_words[i]],
        !.words_processed = IF full THEN Min({last + 1, n}) ELSE 0,
        !.words_ok = IF full THEN e.words_ok ELSE TRUE]

\* WordleEngine::ProcessWords : at most ChunkSize words in one call
ProcessWords(e) ==
  LET n     == NumWords(e)
      first == e.words_processed
      full  == n - first >= ChunkSize
      last  == IF full THEN first + ChunkSize ELSE n
  IN  [e EXCEPT
        !.next_words = [i \in 1..n |->
                          IF first < i /\ i <= last
                          THEN BuildNextWords(e, i - 1)
                          ELSE e.next_words[i]],
        !.words_processed = IF full THEN last ELSE 0,
        !.words_ok = IF full THEN e.words_ok ELSE TRUE]

\* WordleEngine::ProcessStats
ProcessStats(e) ==
  [e EXCEPT
    !.stats = [i \in 1..NumWords(e) |->
                 IF Cardinality(e.cur_options) = NumWords(e)
                 THEN CalcStats(e.next_words[i])
                 ELSE CalcStatsFiltered(e.next_words[i], e.cur_options)],
    !.stats_ok = TRUE]

\* WordleEngine::Process : the engine after the call
Process(e) ==
  IF ~e.clues_ok THEN ProcessClues(e)
  ELSE IF ~e.words_ok THEN ProcessWords(e)
  ELSE IF ~e.stats_ok THEN ProcessStats(e)
  ELSE e

\* WordleEngine::Process : the value returned
ProcessDone(e) == e.clues_ok /\ e.words_ok /\ e.stats_ok

\* WordleEngine::ResetOptions
ResetOptions(e) ==
  Process([e EXCEPT !.cur_options = AllIDs(NumWords(e)), !.stats_ok = FALSE])

\* WordleEngine::SetOptions
SetOptions(e, in) == [e EXCEPT !.cur_options = in]

\* WordleEngine::HasWord
HasWord(e, word) == word \in DOMAIN e.id_map

\* id_map[word] : the map after the access (a missing key is inserted with 0)
IdMapTouch(m, word) ==
  [w \in DOMAIN m \cup {word} |-> IF w \in DOMAIN m THEN m[w] ELSE 0]

\* AddClue that replaces the current options by the clue's group
AddClueAssign(e, word, res) ==
  LET m       == IdMapTouch(e.id_map, word)
      word_id == m[word]
  IN  Process([e EXCEPT
                 !.id_map = m,
                 !.cur_options = GetGroup(e.next_words[word_id + 1], res.id),
                 !.stats_ok = FALSE])

\* WordleEngine::AddClue
AddClue(e, word, res) ==
  LET m       == IdMapTouch(e.id_map, word)
      word_id == m[word]
  IN  Process([e EXCEPT
                 !.id_map = m,
                 !.cur_options = e.cur_options \cap
                                 GetGroup(e.next_words[word_id + 1], res.id),
                 !.stats_ok = FALSE])

\* WordleEngine::AddClue for a result id that is no index of starts (the
\* emp_assert of GetGroup is compiled out of a release build): start_id is
\* whatever lies at starts[group_id], here start_read, and end_id is
\* ids.size(), so the group read is a tail of ids, empty for a large start_id
AddClueRead(e, word, res, start_read) ==
  LET m       == IdMapTouch(e.id_map, word)
      g       == e.next_words[m[word] + 1]
      group   == IF res.id < Len(g.starts) THEN GetGroup(g, res.id)
                 ELSE {g.ids[i + 1] : i \in start_read..(Len(g.ids) - 1)}
  IN  Process([e EXCEPT
                 !.id_map = m,
                 !.cur_options = e.cur_options \cap group,
                 !.stats_ok = FALSE])

\* emp::is_lower on a word: every character is a lowercase letter
IsLower(word) == \A i \in 1..Len(word) : IsLowerLetter(word[i])

\* the loop of Load without the test for a word that id_map already holds
RECURSIVE LoadFromKeepDup(_, _, _)
LoadFromKeepDup(e, in_words, i) ==
  IF i > Len(in_words) THEN e
  ELSE LET in_word == in_words[i]
       IN  IF Len(in_word) # e.word_size \/ ~IsLower(in_word)
           THEN LoadFromKeepDup(e, in_words, i + 1)
           ELSE LoadFromKeepDup(
                  [e EXCEPT
                     !.id_map = [w \in DOMAIN e.id_map \cup {in_word} |->
                                   IF w = in_word THEN Len(e.words)
                                   ELSE e.id_map[w]],
                     !.words = Append(e.words, in_word),
                     !.next_words = Append(e.next_words, NewIDGroups),
                     !.stats = Append(e.stats, NewGroupStats)],
                  in_words, i + 1)

\* the loop of Load over the input words, from input position i on
RECURSIVE LoadFrom(_, _, _)
LoadFrom(e, in_words, i) ==
  IF i > Len(in_words) THEN e
  ELSE LET in_word == in_words[i]
       IN  IF \/ Len(in_word) # e.word_size
              \/ ~IsLower(in_word)
              \/ in_word \in DOMAIN e.id_map
           THEN LoadFrom(e, in_words, i + 1)
           ELSE LoadFrom(
                  [e EXCEPT
                     !.id_map = [w \in DOMAIN e.id_map \cup {in_word} |->
                                   IF w = in_word THEN Len(e.words)
                                   ELSE e.id_map[w]],
                     !.words = Append(e.words, in_word),
                     !.next_words = Append(e.next_words, NewIDGroups),
                     !.stats = Append(e.stats, NewGroupStats)],
                  in_words, i + 1)

\* WordleEngine::Load
Load(e, in_words) ==
  ResetOptions([LoadFrom(e, in_words, 1) EXCEPT
                  !.clues_ok = FALSE, !.words_ok = FALSE, !.stats_ok = FALSE])

\* the counters of Load when its loop has ended: a word is counted by the
\* first of the three tests it fails, the third against the id_map that the
\* words before it have left
LoadCounts(e, in_words) ==
  LET Before(i) == LoadFrom(e, SubSeq(in_words, 1, i - 1), 1)
      WrongSize(i) == Len(in_words[i]) # e.word_size
      Invalid(i) == ~WrongSize(i) /\ ~IsLower(in_words[i])
      Dup(i) == /\ ~WrongSize(i) /\ IsLower(in_words[i])
                /\ in_words[i] \in DOMAIN Before(i).id_map
      all == 1..Len(in_words)
  IN  [wrong_size_count   |-> Cardinality({i \in all : WrongSize(i)}),
       invalid_char_count |-> Cardinality({i \in all : Invalid(i)}),
       dup_count          |-> Cardinality({i \in all : Dup(i)})]

\* WordleEngine(in_words, _word_size)
NewEngineWith(in_words, in_size, mem) ==
  Load(NewEngine(in_size, mem), in_words)

\* WordleEngine::SetWordSize : pos_clues is resized (the elements below the
\* new size stay as they are), words, cur_options and id_map are emptied;
\* let_clues and the flags are not touched
SetWordSize(e, in_size) ==
  [e EXCEPT
     !.word_size = in_size,
     !.pos_clues = [p \in 1..in_size |->
                      IF p <= Len(e.pos_clues) THEN e.pos_clues[p]
                      ELSE [l \in LetterIDs |-> {}]],
     !.words = << >>, !.next_words = << >>, !.stats = << >>,
     !.cur_options = {},
     !.id_map = << >>]

\* pattern[pos] for a 0-based pos; the terminator is read at pos = size
CharAt(str, pos) == IF pos < Len(str) THEN str[pos + 1] ELSE "\\0"

\* emp::find_paren_match(pattern, start_pos, '[', ']') : the position of the
\* matching ']' or start_pos when there is none
RECURSIVE ParenMatchFrom(_, _, _, _)
ParenMatchFrom(str, start_pos, pos, open_count) ==
  IF pos >= Len(str) THEN start_pos
  ELSE IF CharAt(str, pos) = "[" 
       THEN ParenMatchFrom(str, start_pos, pos + 1, open_count + 1)
  ELSE IF CharAt(str, pos) = "]"
       THEN IF open_count = 1 THEN pos
            ELSE ParenMatchFrom(str, start_pos, pos + 1, open_count - 1)
  ELSE ParenMatchFrom(str, start_pos, pos + 1, open_count)

FindParenMatch(str, start_pos) ==
  IF CharAt(str, start_pos) # "[" THEN start_pos
  ELSE ParenMatchFrom(str, start_pos, start_pos + 1, 1)

\* the loop of FilterPattern, from word position word_pos on
RECURSIVE FilterPatternFrom(_, _, _, _, _, _)
FilterPatternFrom(e, ids, pattern, word_pos, pattern_pos, out_ids) ==
  IF word_pos >= e.word_size THEN out_ids
  ELSE LET key_char == CharAt(pattern, pattern_pos)
       IN  IF key_char = "."
           THEN FilterPatternFrom(e, ids, pattern, word_pos + 1,
                                  pattern_pos + 1, out_ids)
           ELSE IF IsLetter(key_char)
           THEN FilterPatternFrom(e, ids, pattern, word_pos + 1,
                  pattern_pos + 1,
                  out_ids \cap e.pos_clues[word_pos + 1][ToID(key_char)])
           ELSE IF key_char = "["
           THEN LET end_pos == FindParenMatch(pattern, pattern_pos)
                    inside  == (pattern_pos + 1)..(end_pos - 1)
                IN  IF end_pos = pattern_pos THEN ids
                    ELSE IF \E i \in inside : ~IsLetter(CharAt(pattern, i))
                    THEN ids
                    ELSE FilterPatternFrom(e, ids, pattern, word_pos + 1,
                           end_pos + 1,
                           out_ids \cap
                           UNION {e.pos_clues[word_pos + 1]
                                    [ToID(CharAt(pattern, i))] : i \in inside})
           ELSE ids

\* WordleEngine::FilterPattern(ids, pattern)
FilterPattern(e, ids, pattern) ==
  FilterPatternFrom(e, ids, pattern, 0, 0, ids)

\* the number of occurrences of letter_id among the first n letters of str
CountUpTo(str, n, letter_id) ==
  Cardinality({i \in 1..n : ToID(str[i]) = letter_id})

\* WordleEngine::FilterWords
FilterWords(e, ids, pattern, include, exclude) ==
  {id \in FilterPattern(e, ids, pattern) :
     /\ \A i \in 1..Len(include) :
          id \in AtLeast(e, ToID(include[i]),
                         CountUpTo(include, i, ToID(include[i])))
     /\ \A i \in 1..Len(exclude) :
          id \in Exactly(e, ToID(exclude[i]),
                         CountUpTo(include, Len(include), ToID(exclude[i])))}

\* WordleEngine::FilterCurWords
FilterCurWords(e, pattern, include, exclude) ==
  FilterWords(e, e.cur_options, pattern, include, exclude)

\* the sort types SortWords knows
SortTypes ==
  {"max", "ave", "info", "solve", "alpha",
   "r-max", "r-ave", "r-info", "r-alpha", "r-solve"}

\* a < b for two doubles that are quotients of counts
RatioLess(a, b) == a[1] * b[2] < b[1] * a[2]

\* a < b for two entropies.  Both are sums of -p * log2(p) with p = size /
\* total over the same total, so total * entropy is log2(total^S / P) with S
\* the sum of the sizes and P the product of the size^size, and the doubles
\* compare as these quotients do.
EntropyLess(a, b) ==
  LET RECURSIVE Sum(_, _)
      Sum(sizes, i) == IF i > Len(sizes) THEN 0
                       ELSE sizes[i] + Sum(sizes, i + 1)
      RECURSIVE Prod(_, _)
      Prod(sizes, i) == IF i > Len(sizes) THEN 1
                        ELSE Pow(sizes[i], sizes[i]) * Prod(sizes, i + 1)
  IN  Pow(a.total, Sum(a.sizes, 1)) * Prod(b.sizes, 1)
        < Pow(b.total, Sum(b.sizes, 1)) * Prod(a.sizes, 1)

\* the comparison function SortWords gives to GetSorted for a sort type
FunLess(e, type, id1, id2) ==
  LET w1 == e.stats[id1 + 1]
      w2 == e.stats[id2 + 1]
      RECURSIVE WordLess(_, _, _)
      WordLess(a, b, i) ==
        IF i > Len(b) THEN FALSE
        ELSE IF i > Len(a) THEN TRUE
        ELSE IF a[i] # b[i] THEN ToID(a[i]) < ToID(b[i])
        ELSE WordLess(a, b, i + 1)
  IN  CASE type = "max" ->
             IF w1.max_options = w2.max_options
             THEN RatioLess(w1.ave_options, w2.ave_options)
             ELSE w1.max_options < w2.max_options
        [] type = "ave" ->
             IF ~RatioLess(w1.ave_options, w2.ave_options)
                /\ ~RatioLess(w2.ave_options, w1.ave_options)
             THEN w1.max_options < w2.max_options
             ELSE RatioLess(w1.ave_options, w2.ave_options)
        [] type = "info"  -> EntropyLess(w2.entropy, w1.entropy)
        [] type = "solve" -> RatioLess(w2.solve_p, w1.solve_p)
        [] type = "alpha" -> WordLess(e.words[id1 + 1], e.words[id2 + 1], 1)
        [] type = "r-max" ->
             IF w1.max_options = w2.max_options
             THEN RatioLess(w2.ave_options, w1.ave_options)
             ELSE w1.max_options > w2.max_options
        [] type = "r-ave" ->
             IF ~RatioLess(w1.ave_options, w2.ave_options)
                /\ ~RatioLess(w2.ave_options, w1.ave_options)
             THEN w1.max_options > w2.max_options
             ELSE RatioLess(w2.ave_options, w1.ave_options)
        [] type = "r-info"  -> EntropyLess(w1.entropy, w2.entropy)
        [] type = "r-alpha" -> WordLess(e.words[id2 + 1], e.words[id1 + 1], 1)
        [] type = "r-solve" -> RatioLess(w1.solve_p, w2.solve_p)

\* SortWords that lists the ids as GetSorted() without a function does
SortWordsByID(e, ids, type) ==
  IF type \in SortTypes THEN {GetSorted(ids)} ELSE {<< >>}

\* WordleEngine::SortWords : the lists std::sort can leave, which are the
\* orders of the ids in which no id is less than the one before it (ids that
\* compare as equal can come in any order); the empty list for a type that
\* is not known
SortWords(e, ids, type) ==
  IF type \in SortTypes
  THEN {list \in [1..Cardinality(ids) -> ids] :
          /\ \A i \in DOMAIN list : \A j \in DOMAIN list :
               i # j => list[i] # list[j]
          /\ \A i \in 1..(Len(list) - 1) :
               ~FunLess(e, type, list[i + 1], list[i])}
  ELSE {<< >>}

\* the loop of AnalyzeStats over in_words, from word i on
RECURSIVE AnalyzeStatsFrom(_, _, _, _, _)
AnalyzeStatsFrom(e, in_words, i, m, combo_ids) ==
  IF i > Len(in_words) THEN [id_map |-> m, combo_ids |-> combo_ids]
  ELSE LET touched == IdMapTouch(m, in_words[i])
           id      == touched[in_words[i]]
       IN  AnalyzeStatsFrom(e, in_words, i + 1, touched,
                            MultiAdd(combo_ids, e.next_words[id + 1]))

\* WordleEngine::AnalyzeStats : id_map and the MultiGroup after the loop
AnalyzeStats(e, in_words) == AnalyzeStatsFrom(e, in_words, 1, e.id_map, << >>)

\* the first value of p1 in the loop of AnalyzeTriples
TripleStart == 1455

\* the pairs of word ids in the order the loops of AnalyzePairs take them
\* from info_words
PairCombos(info_words) ==
  LET n == Len(info_words)
      RECURSIVE Row(_, _)
      Row(p1, p2) == IF p2 >= p1 THEN << >>
                     ELSE << << info_words[p1 + 1], info_words[p2 + 1] >> >>
                          \o Row(p1, p2 + 1)
      RECURSIVE Rows(_)
      Rows(p1) == IF p1 >= n THEN << >> ELSE Row(p1, 0) \o Rows(p1 + 1)
  IN  Rows(1)

\* the triples of word ids in the order the loops of AnalyzeTriples take
\* them from info_words
TripleCombos(info_words) ==
  LET n == Len(info_words)
      RECURSIVE Inner(_, _, _)
      Inner(p1, p2, p3) ==
        IF p3 >= p2 THEN << >>
        ELSE << << info_words[p1 + 1], info_words[p2 + 1],
                   info_words[p3 + 1] >> >> \o Inner(p1, p2, p3 + 1)
      RECURSIVE Row(_, _)
      Row(p1, p2) == IF p2 >= p1 THEN << >>
                     ELSE Inner(p1, p2, 0) \o Row(p1, p2 + 1)
      RECURSIVE Rows(_)
      Rows(p1) == IF p1 >= n THEN << >> ELSE Row(p1, 1) \o Rows(p1 + 1)
  IN  Rows(TripleStart)

\* the stats of the MultiGroup that holds the partitions of the words of a
\* combination, added in the order of the combination
JointStats(e, combo) ==
  LET RECURSIVE AddAll(_, _)
      AddAll(i, combo_ids) ==
        IF i > Len(combo) THEN combo_ids
        ELSE AddAll(i + 1, MultiAdd(combo_ids, e.next_words[combo[i] + 1]))
  IN  MultiCalcStats(AddAll(1, << >>))

\* the four tests of the loop body of AnalyzePairs and AnalyzeTriples
BetterStats(best, found) ==
  [max_options |-> IF found.max_options < best.max_options
                   THEN found.max_options ELSE best.max_options,
   ave_options |-> IF RatioLess(found.ave_options, best.ave_options)
                   THEN found.ave_options ELSE best.ave_options,
   entropy     |-> IF EntropyLess(best.entropy, found.entropy)
                   THEN found.entropy ELSE best.entropy,
   solve_p     |-> IF RatioLess(best.solve_p, found.solve_p)
                   THEN found.solve_p ELSE best.solve_p]

\* best_stats after the loops have taken the combinations from position i
\* on; it starts with ave_options and max_options at words.size()
RECURSIVE SearchFrom(_, _, _, _)
SearchFrom(e, combos, i, best) ==
  IF i > Len(combos) \/ best.max_options < 0 THEN best
  ELSE SearchFrom(e, combos, i + 1,
                  BetterStats(best, JointStats(e, combos[i])))

-----------------------------------------------------------------------------
(* Wordle-CommandLine.cpp : WordleDriver *)

\* no call of WordleDriver::Error
NoError == ""

\* Clue(_w, _r, _f)
NewClue(w, r, f) == [word |-> w, result |-> r, is_filter |-> f]

ZeroCounts == [l \in LetterIDs |-> 0]

\* the loop over the letters of a '+' or '-' argument, from character j on:
\* the counts, or FALSE in .ok when a character is not a lowercase letter
RECURSIVE CountLetters(_, _, _)
CountLetters(arg, j, counts) ==
  IF j > Len(arg) THEN [ok |-> TRUE, counts |-> counts]
  ELSE IF ~IsLowerLetter(arg[j]) THEN [ok |-> FALSE, counts |-> counts]
  ELSE CountLetters(arg, j + 1, [counts EXCEPT ![ToID(arg[j])] = @ + 1])

\* the loop of CommandFilter over its arguments, from argument i on
RECURSIVE ParseFilterArgs(_, _, _)
ParseFilterArgs(args, i, st) ==
  IF i > Len(args) THEN st
  ELSE LET arg  == args[i]
           let1 == arg[1]
       IN  IF let1 = "+"
           THEN LET c == CountLetters(arg, 2, st.include_count)
                IN  IF c.ok
                    THEN ParseFilterArgs(args, i + 1,
                                         [st EXCEPT !.include_count = c.counts])
                    ELSE [st EXCEPT !.ok = FALSE, !.error =
                            "Inclusions in filter must be lowercase; not '"]
           ELSE IF let1 = "-"
           THEN LET c == CountLetters(arg, 2, st.exclude_count)
                IN  IF c.ok
                    THEN ParseFilterArgs(args, i + 1,
                                         [st EXCEPT !.exclude_count = c.counts])
                    ELSE [st EXCEPT !.ok = FALSE, !.error =
                            "Exclusions in filter must be lowercase; not '"]
           ELSE IF let1 = "." \/ IsLowerLetter(let1) \/ let1 = "["
           THEN ParseFilterArgs(args, i + 1, [st EXCEPT !.pattern = arg])
           ELSE [st EXCEPT !.ok = FALSE, !.error =
                   "Requirements with find must begin with '+' or '-', not '"]

\* the clean include string: each letter as often as it was counted (the
\* loop over the letters lo, ..., hi - 1, as its two halves)
RECURSIVE BuildInclude(_, _, _)
BuildInclude(include_count, lo, hi) ==
  IF hi <= lo THEN << >>
  ELSE IF hi = lo + 1
  THEN [j \in 1..include_count[lo] |-> Alphabet[lo + 1]]
  ELSE LET mid == (lo + hi) \div 2
       IN  BuildInclude(include_count, lo, mid)
           \o BuildInclude(include_count, mid, hi)

\* the clean exclude string: each counted letter once
RECURSIVE BuildExclude(_, _, _)
BuildExclude(exclude_count, lo, hi) ==
  IF hi <= lo THEN << >>
  ELSE IF hi = lo + 1
  THEN (IF exclude_count[lo] > 0 THEN << Alphabet[lo + 1] >> ELSE << >>)
  ELSE LET mid == (lo + hi) \div 2
       IN  BuildExclude(exclude_count, lo, mid)
           \o BuildExclude(exclude_count, mid, hi)

\* the pattern, include and exclude strings CommandFilter derives from args
FilterRequest(ws, args) ==
  LET st == ParseFilterArgs(args, 1,
              [ok |-> TRUE, error |-> NoError,
               pattern |-> [i \in 1..ws |-> "."],
               include_count |-> ZeroCounts, exclude_count |-> ZeroCounts])
  IN  [ok      |-> st.ok,
       error   |-> st.error,
       pattern |-> st.pattern,
       include |-> BuildInclude(st.include_count, 0, NumLetters),
       exclude |-> BuildExclude(st.exclude_count, 0, NumLetters)]

\* filter_str : the arguments joined by single spaces
RECURSIVE JoinArgs(_, _)
JoinArgs(args, i) ==
  IF i > Len(args) THEN << >>
  ELSE (IF i > 1 THEN << " " >> ELSE << >>) \o args[i] \o JoinArgs(args, i + 1)

\* clues.pop_back() that removes nothing
PopBackNone(s) == s

\* clues.pop_back()
PopBack(s) == SubSeq(s, 1, Len(s) - 1)

\* a clue whose result id is an index of starts in the partitions
InRange(e, res) == res.id < CalcNumIDs(e.word_size)

\* the loop of CommandPop over the remaining clues, from clue i on; the
\* value of FilterCurWords computed for a filter entry is not stored anywhere;
\* reads[i] is what clue i finds at starts[group_id] past the end of starts
RECURSIVE ReplayClues(_, _, _, _)
ReplayClues(e, cs, i, reads) ==
  IF i > Len(cs) THEN e
  ELSE IF cs[i].is_filter THEN ReplayClues(e, cs, i + 1, reads)
  ELSE IF InRange(e, cs[i].result)
  THEN ReplayClues(AddClue(e, cs[i].word, cs[i].result), cs, i + 1, reads)
  ELSE ReplayClues(AddClueRead(e, cs[i].word, cs[i].result, reads[i]),
                   cs, i + 1, reads)

\* the checks of CommandClue without the dictionary lookup
ClueErrorNoLookup(e, clue_word, clue_result) ==
  IF Len(clue_word) # e.word_size THEN "Word size "
  ELSE IF Len(clue_result) # e.word_size
  THEN "Results size must be the same as guess ("
  ELSE NoError

\* the three checks at the head of CommandClue: the first literal of the
\* message given to Error, or NoError when the clue passes them
ClueError(e, clue_word, clue_result) ==
  IF Len(clue_word) # e.word_size THEN "Word size "
  ELSE IF Len(clue_result) # e.word_size
  THEN "Results size must be the same as guess ("
  ELSE IF ~HasWord(e, clue_word) THEN "Illegal clue word '"
  ELSE NoError

\* WordleDriver::CommandClue
DoCommandClue(clue_word, clue_result) ==
  IF ClueError(Engine, clue_word, clue_result) # NoError
  THEN /\ error' = ClueError(Engine, clue_word, clue_result)
       /\ UNCHANGED << engine_vars, clues >>
  ELSE /\ error' = NoError
       /\ clues' = Append(clues,
                          NewClue(clue_word, FromString(clue_result), FALSE))
       /\ IF InRange(Engine, FromString(clue_result))
          THEN SetEngine(AddClue(Engine, clue_word, FromString(clue_result)))
          ELSE \E start_read \in 0..NumWords(Engine) :
                 SetEngine(AddClueRead(Engine, clue_word,
                                       FromString(clue_result), start_read))

\* WordleDriver::CommandFilter ; args are the words after the command name
DoCommandFilter(args) ==
  LET req == FilterRequest(word_size, args)
  IN  IF Len(args) < 1 \/ ~req.ok
      THEN /\ error' = (IF Len(args) < 1
                        THEN "Must include at least one argument to filter on."
                        ELSE req.error)
           /\ UNCHANGED << engine_vars, clues >>
      ELSE /\ error' = NoError
           /\ SetEngine(SetOptions(Engine,
                 FilterCurWords(Engine, req.pattern, req.include, req.exclude)))
           /\ clues' = Append(clues,
                              NewClue(JoinArgs(args, 1), DefaultResult, TRUE))

\* the "pop" command of ProcessCommandLine and WordleDriver::CommandPop
DoCommandPop ==
  IF Len(clues) = 0
  THEN /\ error' = "Error: No clues to pop."
       /\ UNCHANGED << engine_vars, clues >>
  ELSE /\ error' = NoError
       /\ clues' = PopBack(clues)
       /\ \E reads \in [1..(Len(clues) - 1) -> 0..NumWords(Engine)] :
            /\ \A i \in 1..(Len(clues) - 1) :
                 (clues[i].is_filter \/ InRange(Engine, clues[i].result))
                   => reads[i] = 0
            /\ SetEngine(ReplayClues(ResetOptions(Engine), PopBack(clues), 1,
                                     reads))

\* the "reset" command of ProcessCommandLine
DoCommandReset ==
  /\ error' = NoError
  /\ clues' = << >>
  /\ SetEngine(ResetOptions(Engine))

\* the body shared by CommandDict and CommandWords, for the ids to list; a
\* sort type that is a number is the count, and the sort type is alpha
DoListing(type, ids, none_error) ==
  IF Cardinality(ids) = 0
  THEN error' = none_error /\ UNCHANGED sort_vars
  ELSE LET sorted_by == IF type \in {"10"} THEN "alpha" ELSE type
       IN  \E list \in SortWords(Engine, ids, sorted_by) :
             IF Len(list) = 0
             THEN error' = "Unknown sort type '" /\ UNCHANGED sort_vars
             ELSE error' = NoError /\ sort_type' = sorted_by
                  /\ out_words' = list

\* the command loop starts once WordleDriver::Process has returned
Started == clues_ok /\ words_ok /\ stats_ok

-----------------------------------------------------------------------------
(* WordSet.hpp : the preprocessing of the legacy template engine *)

\* the number of breaks Preprocess_IdentifyNextWords aims at
ProgressSteps == 85

\* most calls of Preprocess followed for one word list
MaxCalls == 300

\* a WordSet that has loaded num_words words and was not preprocessed
InitWordSet(num_words) ==
  /\ pp_size = num_words
  /\ pp_stage = 0 /\ pp_id_next = 0 /\ pp_progress = 0
  /\ pp_analysed = << >> /\ pp_returned = FALSE

\* the while loop of Preprocess_IdentifyNextWords from its next test of
\* pp_id_next on; word_count is the local counter, step is words.size() / 85
RECURSIVE IdentifyFrom(_, _, _, _)
IdentifyFrom(id_next, word_count, step, analysed) ==
  IF ~(id_next < pp_size)
  THEN [done |-> TRUE, id_next |-> id_next, analysed |-> analysed]
  ELSE IF word_count + 1 = step
  THEN [done |-> FALSE, id_next |-> id_next, analysed |-> analysed]
  ELSE CHOOSE out \in
         {IdentifyFrom(id_next + 1, word_count + 1, step, a) :
            a \in {Append(analysed, id_next)}} : TRUE

\* WordSet::Preprocess_IdentifyNextWords
Preprocess_IdentifyNextWords ==
  IdentifyFrom(pp_id_next, 0, pp_size \div ProgressSteps, pp_analysed)

\* WordSet::Preprocess ; the calls stop once one has returned true
Preprocess ==
  /\ ~pp_returned
  /\ pp_stage + pp_progress < MaxCalls
  /\ IF pp_stage \in {0, 1, 2}
     THEN /\ pp_stage' = pp_stage + 1
          /\ pp_returned' = FALSE
          /\ UNCHANGED << pp_size, pp_id_next, pp_progress, pp_analysed >>
     ELSE IF pp_stage = 3
     THEN \E out \in {Preprocess_IdentifyNextWords} :
            /\ pp_id_next' = out.id_next
            /\ pp_analysed' = out.analysed
            /\ pp_progress' = IF out.done THEN pp_progress
                               ELSE pp_progress + 1
            /\ pp_stage' = IF out.done THEN pp_stage + 1 ELSE pp_stage
            /\ pp_returned' = FALSE
            /\ UNCHANGED pp_size
     ELSE /\ pp_stage' = 100
          /\ pp_returned' = TRUE
          /\ UNCHANGED << pp_size, pp_id_next, pp_progress, pp_analysed >>
  /\ UNCHANGED << engine_vars, driver_vars, result_vars, multi_vars,
                  sort_vars, load_vars, search_vars, web_vars,
                  scenario_vars >>

-----------------------------------------------------------------------------
(* Wordle.cpp : the driver of the web front end *)

\* size_t word_size = 5 of the web driver
WebWordSize == 5

\* size_t max_tries = 6
max_tries == 6

\* most events followed from one grid
MaxEvents == 4

\* Status::NONE -> NOWHERE -> ELSEWHERE -> HERE -> NOWHERE of KeypressSpace
StatusAfter(s) ==
  CASE s = "NONE"      -> "NOWHERE"
    [] s = "NOWHERE"   -> "ELSEWHERE"
    [] s = "ELSEWHERE" -> "HERE"
    [] s = "HERE"      -> "NOWHERE"

\* WordleDriver() : blank cells without status; here the first few rows are
\* already full, as they are after the rows were typed and marked cell by
\* cell and the first cell was clicked
InitWeb(rows) ==
  /\ grid_words = [r \in 1..max_tries |->
                     [c \in 1..WebWordSize |->
                        IF r <= rows THEN "A" ELSE " "]]
  /\ status = [r \in 1..max_tries |->
                 [c \in 1..WebWordSize |->
                    IF r <= rows THEN "NOWHERE" ELSE "NONE"]]
  /\ active_row = 0 /\ active_col = 0 /\ full_rows = 0
  /\ needs_update = TRUE /\ message = ""
  /\ accessed = << >> /\ event_count = 0

\* the web driver as a record: what the handlers below read and write
WebDriver ==
  [words |-> grid_words, status |-> status, active_row |-> active_row,
   active_col |-> active_col, full_rows |-> full_rows,
   needs_update |-> needs_update, message |-> message,
   accessed |-> << >>, was |-> active_row]

\* WordleDriver::TestFullRow ; emp::is_upper holds for a string of
\* uppercase letters only
TestFullRow(w, row_id) ==
  /\ \A pos \in 1..WebWordSize : w.status[row_id + 1][pos] # "NONE"
  /\ \A pos \in 1..WebWordSize : w.words[row_id + 1][pos] # " "

\* WordleDriver::CountFullRows
CountFullRows(w) ==
  Min({row_id \in 0..(max_tries - 1) : ~TestFullRow(w, row_id)}
        \cup {max_tries})

\* WordleDriver::ValidateActive
ValidateActive(w) ==
  LET full == CountFullRows(w)
      row1 == IF w.active_row > full THEN full ELSE w.active_row
      row2 == IF row1 >= max_tries THEN max_tries - 1 ELSE row1
  IN  [w EXCEPT !.full_rows = full,
                !.active_row = row2,
                !.active_col = IF w.active_col > WebWordSize
                               THEN WebWordSize - 1 ELSE w.active_col]

\* an access of words[active_row][active_col] or of
\* status[active_row][active_col] : the position, the number of leading
\* full rows at that moment, and active_row as the event found it
Touch(w) ==
  [w EXCEPT !.accessed =
     Append(w.accessed, [row |-> w.active_row, col |-> w.active_col,
                        full |-> CountFullRows(w), was |-> w.was])]

\* the active position is a cell of the grid
ActiveInGrid(w) == w.active_row < max_tries /\ w.active_col < WebWordSize

\* words[active_row][active_col] = key ; a store outside the grid does not
\* reach it
SetWord(w, key) ==
  IF ActiveInGrid(w)
  THEN [Touch(w) EXCEPT !.words[w.active_row + 1][w.active_col + 1] = key]
  ELSE Touch(w)

\* status[active_row][active_col] = s
SetStatus(w, s) ==
  IF ActiveInGrid(w)
  THEN [Touch(w) EXCEPT !.status[w.active_row + 1][w.active_col + 1] = s]
  ELSE Touch(w)

\* WordleDriver::KeypressLetter
KeypressLetter(w, key) ==
  LET set == SetWord(w, key)
  IN  [set EXCEPT
         !.active_col = IF w.active_col + 1 = WebWordSize THEN 0
                        ELSE w.active_col + 1,
         !.active_row = IF w.active_col + 1 = WebWordSize
                        THEN w.active_row + 1 ELSE w.active_row,
         !.needs_update = TRUE]

\* WordleDriver::KeypressSpace
KeypressSpace(w) ==
  LET s == IF ActiveInGrid(w)
           THEN w.status[w.active_row + 1][w.active_col + 1] ELSE "NONE"
  IN  [SetStatus(w, StatusAfter(s)) EXCEPT !.needs_update = TRUE]

\* WordleDriver::KeypressLeft
KeypressLeft(w) ==
  IF w.active_col = 0
  THEN IF w.active_row > 0
       THEN [w EXCEPT !.active_row = w.active_row - 1,
                      !.active_col = WebWordSize - 1,
                      !.needs_update = TRUE]
       ELSE [w EXCEPT !.needs_update = TRUE]
  ELSE [w EXCEPT !.active_col = w.active_col - 1, !.needs_update = TRUE]

\* WordleDriver::KeypressBackspace
KeypressBackspace(w) == KeypressLeft(SetStatus(SetWord(w, " "), "NONE"))

\* WordleDriver::KeypressUp
KeypressUp(w) ==
  [w EXCEPT !.active_row = IF w.active_row > 0 THEN w.active_row - 1
                           ELSE w.active_row,
            !.needs_update = TRUE]

\* WordleDriver::KeypressRight
KeypressRight(w) ==
  IF w.active_col = WebWordSize - 1
  THEN [w EXCEPT !.active_row = w.active_row + 1, !.active_col = 0,
                 !.needs_update = TRUE]
  ELSE [w EXCEPT !.active_col = w.active_col + 1, !.needs_update = TRUE]

\* WordleDriver::KeypressDown
KeypressDown(w) ==
  [w EXCEPT !.active_row = w.active_row + 1, !.needs_update = TRUE]

\* the keys of the events: a letter, a letter with a meta key held, the
\* keys with the codes 8, 32, 37, 38, 39, 40 and 46, and any other key
Keys ==
  {"A", "shift+A", "backspace", "space", "left", "up", "right", "down",
   "delete", "other"}

\* the body of DoKeyPress after its call of ValidateActive
KeyPressed(valid, key) ==
  CASE key = "shift+A" -> valid
    [] key = "A" -> KeypressLetter(valid, key)
    [] key \in {"backspace", "delete"} -> KeypressBackspace(valid)
    [] key = "space" -> KeypressSpace(valid)
    [] key = "left"  -> KeypressLeft(valid)
    [] key = "up"    -> KeypressUp(valid)
    [] key = "right" -> KeypressRight(valid)
    [] key = "down"  -> KeypressDown(valid)
    [] OTHER -> [valid EXCEPT !.message = "Unknown key: '",
                              !.needs_update = TRUE]

\* ValidateActive that does not look at the full rows
ValidateNoFullRows(w) ==
  [w EXCEPT !.full_rows = CountFullRows(w),
            !.active_row = IF w.active_row >= max_tries THEN max_tries - 1
                           ELSE w.active_row,
            !.active_col = IF w.active_col > WebWordSize
                           THEN WebWordSize - 1 ELSE w.active_col]

DoKeyPressNoFullRows(w, key) == KeyPressed(ValidateNoFullRows(w), key)

\* WordleDriver::DoKeyPress : the driver after the call
DoKeyPress(w, key) == KeyPressed(ValidateActive(w), key)

\* WordleDriver::SetActive
SetActive(w, row, col) ==
  [ValidateActive([w EXCEPT !.active_row = row, !.active_col = col])
     EXCEPT !.needs_update = TRUE]

\* WordleDriver::DoFrame : the driver after the call
DoFrame(w) ==
  IF ~w.needs_update THEN w
  ELSE Touch(ValidateActive([w EXCEPT !.needs_update = FALSE]))

\* the web driver becomes w
SetWebDriver(w) ==
  /\ grid_words' = w.words
  /\ status' = w.status
  /\ active_row' = w.active_row
  /\ active_col' = w.active_col
  /\ full_rows' = w.full_rows
  /\ needs_update' = w.needs_update
  /\ message' = w.message
  /\ accessed' = w.accessed
  /\ event_count' = event_count + 1
  /\ UNCHANGED << engine_vars, driver_vars, result_vars, multi_vars,
                  sort_vars, load_vars, search_vars, legacy_vars,
                  scenario_vars >>

\* a key event
KeyEvent(key) ==
  /\ event_count < MaxEvents
  /\ SetWebDriver(DoKeyPress(WebDriver, key))

\* a click on a cell of the table
ClickEvent(row, col) ==
  /\ event_count < MaxEvents
  /\ SetWebDriver(SetActive(WebDriver, row, col))

\* an animation frame
FrameEvent ==
  /\ event_count < MaxEvents
  /\ SetWebDriver(DoFrame(WebDriver))

-----------------------------------------------------------------------------
(* Inputs *)

\* the word lists (with the word size they are loaded under)
Dictionaries ==
  { [size |-> 3,
     in_words |-> << << "c", "c", "a" >>, << "b", "a", "b" >>,
                     << "a", "b", "c" >>, << "a", "a", "b" >> >>],
    [size |-> 2,
     in_words |-> << << "a", "b" >>, << "b", "a" >>,
                     << "c", "c" >>, << "a", "a" >> >>],
    [size |-> 5,
     in_words |-> << << "a", "a", "a", "a", "a" >>,
                     << "a", "a", "a", "a", "b" >> >>] }

\* what the memory past a letter's arrays can read as.  It is read only for
\* a count above MAX_LETTER_REPEAT, which in these runs takes a word that
\* holds one letter that often.
BeyondSets(in_words) ==
  IF \E i \in 1..Len(in_words) : \E l \in LetterIDs :
       LetterCount(in_words[i], l) > MAX_LETTER_REPEAT
  THEN SUBSET AllIDs(Len(in_words))
  ELSE {{}}

\* every string of the given length over a set of characters
RECURSIVE Strings(_, _)
Strings(chars, n) ==
  IF n = 0 THEN { << >> }
  ELSE {Append(str, ch) : str \in Strings(chars, n - 1), ch \in chars}

\* the result strings a player can report for a guess: what some word of the
\* dictionary answers, and the all-ELSEWHERE string
PlayedResults(guess_word) ==
  {ResultToString(ResultFromPair(guess_word, words[i])) : i \in 1..Len(words)}
  \cup {[i \in 1..word_size |-> "E"]}

\* the words of the loaded dictionary
DictionaryWords == {words[i] : i \in 1..Len(words)}

\* the characters of a result string
ResultChars == {"N", "E", "H"}

\* the characters of a result string in either case
AnyCaseChars == ResultChars \cup {"n", "e", "h"}

\* the two-letter words over a, b, c in alphabetical order
ShortWords ==
  [j \in 1..9 |-> << Alphabet[(j - 1) \div 3 + 1], Alphabet[((j - 1) % 3) + 1] >>]

\* the lengths of the long word lists: none, one chunk, one chunk and a word
ChunkLengths == {0, ChunkSize, ChunkSize + 1}

\* the word lists given to Load: every alphabetical list of at most MaxWords
\* different two-letter words, and the lists of Dictionaries
LoadInputs ==
  {[i \in DOMAIN f |-> ShortWords[f[i]]] :
     f \in {h \in UNION {[1..n -> DOMAIN ShortWords] : n \in 1..MaxWords} :
              \A i \in DOMAIN h : \A j \in DOMAIN h : i < j => h[i] < h[j]}}
  \cup {d.in_words : d \in Dictionaries}

\* the argument lists given to the filter command
FilterInputs ==
  { << << "a" >> \o [i \in 1..(word_size - 1) |-> "."] >>,
    << [i \in 1..(word_size - 1) |-> "."] \o << "[", "a", "b", "]" >> >>,
    << << "+", "b" >> >>,
    << << "-", "c" >> >>,
    << << "+", "a" >>, << "-", "a" >> >> }

\* the string of n copies of a character
Repeat(ch, n) == [i \in 1..n |-> ch]

\* clue commands CommandClue turns away: a guess of another length, a result
\* of another length, a guess that is not a word of the dictionary
RejectedClues ==
  { << << "a" >>, Repeat("N", word_size) >>,
    << words[1], Repeat("H", word_size + 1) >>,
    << Repeat("b", word_size), Repeat("N", word_size) >> }

\* filter commands whose pattern is not word_size positions of '.', a
\* letter or a bracketed set of letters: one position short, one position
\* long, a bracket that is not closed, a '.' inside a bracket, a '?'
MalformedFilters ==
  { << Repeat(".", word_size - 1), << "+", "b" >> >>,
    << << "a" >> \o Repeat(".", word_size) >>,
    << << "[", "a" >> \o Repeat(".", word_size - 1), << "-", "c" >> >>,
    << << "[", "a", ".", "]" >> \o Repeat(".", word_size - 1) >>,
    << << ".", "?" >> \o Repeat(".", word_size - 2) >> }

\* a filter command whose include list names one letter more often than
\* MAX_LETTER_REPEAT times, for words long enough to hold it that often
LongIncludes ==
  IF word_size > MAX_LETTER_REPEAT
  THEN { << << "+" >> \o Repeat("a", MAX_LETTER_REPEAT + 1) >> }
  ELSE {}

\* clue commands whose result string holds a character that is none of N,
\* E, H: as the first and as the last character of the string
BadResultClues ==
  {<< w, << "X" >> \o Repeat("N", word_size - 1) >> : w \in DictionaryWords}
  \cup
  {<< w, Repeat("N", word_size - 1) \o << "x" >> >> : w \in DictionaryWords}

-----------------------------------------------------------------------------
(* The command-line driver as a state machine *)

\* the engine's data members are those of the record e
EngineIs(e) ==
  \E v \in {e} :
    /\ word_size = v.word_size
    /\ words = v.words
    /\ next_words = v.next_words
    /\ stats = v.stats
    /\ pos_clues = v.pos_clues
    /\ let_clues = v.let_clues
    /\ id_map = v.id_map
    /\ cur_options = v.cur_options
    /\ clues_ok = v.clues_ok
    /\ words_ok = v.words_ok
    /\ stats_ok = v.stats_ok
    /\ words_processed = v.words_processed
    /\ beyond = v.beyond

\* the state after WordleEngine(in_words, in_size)
Loaded(in_words, in_size, mem) ==
  /\ EngineIs(NewEngineWith(in_words, in_size, mem))
  /\ loaded_words = in_words
  /\ load_counts = LoadCounts(NewEngine(in_size, mem), in_words)

\* WordleDriver(filename, _size) : the engine is constructed with the words
InitDriver ==
  /\ \E d \in Dictionaries : \E mem \in BeyondSets(d.in_words) :
       Loaded(d.in_words, d.size, mem)
  /\ clues = << >>
  /\ error = NoError

InitResult ==
  /\ result = DefaultResult /\ guess = << >> /\ answer = << >>
  /\ in_str = << >> /\ lookup_size = 0

InitMulti ==
  /\ multi = << >> /\ multi_words = << >>
  /\ sort_type = "" /\ out_words = << >>
  /\ search_mode = "" /\ searched = << >> /\ best_stats = NewGroupStats
  /\ InitWordSet(0)
  /\ InitWeb(0)

NoSnap == [word |-> << >>, result_str |-> << >>, options |-> {}, clues |-> << >>]

Init == InitDriver /\ InitResult /\ InitMulti /\ pc = "idle" /\ snap = NoSnap

\* one call of word_set.Process() in the loop of WordleDriver::Process
ProcessStep ==
  /\ ~Started
  /\ SetEngine(Process(Engine))
  /\ UNCHANGED << driver_vars, result_vars, multi_vars, sort_vars, load_vars,
                  search_vars,
                  legacy_vars,
                  web_vars,
                  scenario_vars >>

CommandClue(clue_word, clue_result) ==
  /\ Started
  /\ Len(clues) < MaxClues
  /\ DoCommandClue(clue_word, clue_result)
  /\ UNCHANGED << result_vars, multi_vars, sort_vars, load_vars,
                  search_vars,
                  legacy_vars,
                  web_vars,
                  scenario_vars >>

CommandFilter(args) ==
  /\ Started
  /\ Len(clues) < MaxClues
  /\ DoCommandFilter(args)
  /\ UNCHANGED << result_vars, multi_vars, sort_vars, load_vars,
                  search_vars,
                  legacy_vars,
                  web_vars,
                  scenario_vars >>

CommandPop ==
  /\ Started
  /\ DoCommandPop
  /\ UNCHANGED << result_vars, multi_vars, sort_vars, load_vars,
                  search_vars,
                  legacy_vars,
                  web_vars,
                  scenario_vars >>

CommandReset ==
  /\ Started
  /\ DoCommandReset
  /\ UNCHANGED << result_vars, multi_vars, sort_vars, load_vars,
                  search_vars,
                  legacy_vars,
                  web_vars,
                  scenario_vars >>

\* WordleDriver::CommandDict ; one listing is followed in a run
CommandDict(type) ==
  /\ Started
  /\ sort_type = ""
  /\ DoListing(type, GetAllOptions(Engine), "No words in dictionary.")
  /\ UNCHANGED << engine_vars, clues, result_vars, multi_vars, load_vars,
                  search_vars,
                  legacy_vars,
                  web_vars,
                  scenario_vars >>

\* WordleDriver::CommandWords
CommandWords(type) ==
  /\ Started
  /\ sort_type = ""
  /\ DoListing(type, cur_options, "No words remaining in word list.")
  /\ UNCHANGED << engine_vars, clues, result_vars, multi_vars, load_vars,
                  search_vars,
                  legacy_vars,
                  web_vars,
                  scenario_vars >>

\* "analyze pairs" and "analyze triples" : WordleEngine::AnalyzePairs and
\* WordleEngine::AnalyzeTriples ; one search is followed in a run
CommandAnalyze(mode) ==
  /\ Started
  /\ search_mode = ""
  /\ mode \in {"pairs", "triples"}
  /\ \E info_words \in SortWords(Engine, GetAllOptions(Engine), "info") :
       LET combos == IF mode = "pairs" THEN PairCombos(info_words)
                     ELSE TripleCombos(info_words)
       IN  /\ searched' = combos
           /\ best_stats' =
                SearchFrom(Engine, combos, 1,
                           [NewGroupStats EXCEPT
                              !.ave_options = Ratio(NumWords(Engine), 1),
                              !.max_options = NumWords(Engine)])
  /\ search_mode' = mode
  /\ UNCHANGED << engine_vars, driver_vars, result_vars, multi_vars,
                  sort_vars, load_vars, legacy_vars,
                  web_vars, scenario_vars >>

\* the "load" command and WordleDriver::CommandLoad, up to the first call
\* of word_set.Process() ; the loop of Load(filename) pushes the last word
\* it read a second time when the stream fails
CommandLoad(file_words, in_size) ==
  /\ Started
  /\ LET in_words == Append(file_words, file_words[Len(file_words)])
     IN  /\ SetEngine(Load(SetWordSize(Engine, in_size), in_words))
         /\ loaded_words' = in_words
         /\ load_counts' = LoadCounts(SetWordSize(Engine, in_size), in_words)
  /\ error' = NoError
  /\ UNCHANGED << clues, result_vars, multi_vars, sort_vars, search_vars,
                  legacy_vars,
                  web_vars,
                  scenario_vars >>

Next ==
  \/ ProcessStep
  \/ \E w \in DictionaryWords :
       \E r \in PlayedResults(w) : CommandClue(w, r)
  \/ \E args \in FilterInputs : CommandFilter(args)
  \/ \E c \in RejectedClues : CommandClue(c[1], c[2])
  \/ CommandPop
  \/ CommandReset

Spec == Init /\ [][Next]_vars

-----------------------------------------------------------------------------
(* The driver given commands that are not well formed *)

NextErrors ==
  \/ Next
  \/ \E args \in MalformedFilters : CommandFilter(args)
  \/ \E c \in BadResultClues : CommandClue(c[1], c[2])
  \/ \E args \in LongIncludes : CommandFilter(args)

SpecErrors == Init /\ [][NextErrors]_vars

-----------------------------------------------------------------------------
(* Sorted listings: of the dictionary as loaded and after a first clue *)

NextSort ==
  \/ ProcessStep
  \/ /\ clues = << >>
     /\ sort_type = ""
     /\ \E w \in DictionaryWords :
          \E r \in PlayedResults(w) : CommandClue(w, r)
  \/ \E type \in SortTypes \cup {"10", "size"} : CommandWords(type)
  \/ \E type \in SortTypes \cup {"10", "size"} : CommandDict(type)

SpecSort == Init /\ [][NextSort]_vars

-----------------------------------------------------------------------------
(* Loading one word list after another *)

NextReload ==
  \/ ProcessStep
  \/ \E d \in Dictionaries : CommandLoad(d.in_words, d.size)

SpecReload == Init /\ [][NextReload]_vars

\* the strings a word file holds: words of the right size, of another size
\* and with a letter that is not lowercase
FileWords ==
  { << "a", "b" >>, << "b", "a" >>, << "A", "b" >>, << "a", "b", "c" >> }

\* the contents of a word file: at most MaxWords strings
FileInputs == UNION {[1..n -> FileWords] : n \in 1..MaxWords}

\* WordleDriver(filename, _size) for the word files of FileInputs
InitFile ==
  /\ \E file_words \in FileInputs : \E in_size \in {2, 3} :
       Loaded(Append(file_words, file_words[Len(file_words)]), in_size, {})
  /\ clues = << >>
  /\ error = NoError
  /\ InitResult /\ InitMulti /\ pc = "idle" /\ snap = NoSnap

\* one call of word_set.Process(), or the "load" command for a file of two
\* strings
NextFile ==
  \/ ProcessStep
  \/ \E file_words \in [1..2 -> FileWords] : \E in_size \in {2, 3} :
       CommandLoad(file_words, in_size)

SpecFile == InitFile /\ [][NextFile]_vars

-----------------------------------------------------------------------------
(* Result objects on their own *)

\* Result(result_size, id)
MakeFromID(result_size, id) ==
  /\ result = DefaultResult
  /\ result' \in ResultsFromID(result_size, id)
  /\ guess' = << >>
  /\ answer' = << >>
  /\ in_str' = << >>
  /\ lookup_size' = result_size
  /\ UNCHANGED << engine_vars, driver_vars, multi_vars, sort_vars, load_vars,
                  search_vars,
                  legacy_vars,
                  web_vars,
                  scenario_vars >>

\* Result(result_str)
MakeFromString(str) ==
  /\ result = DefaultResult
  /\ result' = FromString(str)
  /\ guess' = << >>
  /\ answer' = << >>
  /\ in_str' = str
  /\ lookup_size' = 0
  /\ UNCHANGED << engine_vars, driver_vars, multi_vars, sort_vars, load_vars,
                  search_vars,
                  legacy_vars,
                  web_vars,
                  scenario_vars >>

\* Result(guess, answer)
MakeFromPair(g, a) ==
  /\ result = DefaultResult
  /\ result' = ResultFromPair(g, a)
  /\ guess' = g
  /\ answer' = a
  /\ in_str' = << >>
  /\ lookup_size' = 0
  /\ UNCHANGED << engine_vars, driver_vars, multi_vars, sort_vars, load_vars,
                  search_vars,
                  legacy_vars,
                  web_vars,
                  scenario_vars >>

\* some ids of the longest results the class accepts
LongIDs ==
  {0, 1, 2, 1234567, CalcNumIDs(MAX_WORD_SIZE - 2),
   2 * CalcNumIDs(MAX_WORD_SIZE - 2) + 1, CalcNumIDs(MAX_WORD_SIZE - 1) - 1}

\* the five-letter guess and answer of the worked example
ExampleWords ==
  { << "c", "r", "a", "n", "e" >>, << "s", "l", "a", "t", "e" >> }

NextResult ==
  \/ \E n \in 1..MaxLen :
       \E id \in 0..(CalcNumIDs(n) - 1) : MakeFromID(n, id)
  \/ \E id \in LongIDs : MakeFromID(MAX_WORD_SIZE - 1, id)
  \/ \E n \in 1..MaxLen :
       \E str \in Strings(AnyCaseChars, n) : MakeFromString(str)
  \/ \E ch \in AnyCaseChars :
       MakeFromString([i \in 1..(MAX_WORD_SIZE - 1) |-> ch])
  \/ \E n \in 1..MaxLen :
       \E g \in Strings(Letters, n) :
         \E a \in Strings(Letters, n) : MakeFromPair(g, a)
  \/ \E g \in ExampleWords : \E a \in ExampleWords : MakeFromPair(g, a)

SpecResult == Init /\ [][NextResult]_vars

-----------------------------------------------------------------------------
(* Loading a word list and preprocessing it *)

InitLoad ==
  /\ \E in_words \in LoadInputs : \E mem \in BeyondSets(in_words) :
       Loaded(in_words, Len(in_words[1]), mem)
  /\ clues = << >>
  /\ error = NoError
  /\ InitResult /\ InitMulti /\ pc = "idle" /\ snap = NoSnap

SpecLoad == InitLoad /\ [][ProcessStep]_vars

\* the first n two-letter words in alphabetical order
ManyWords(n) ==
  [j \in 1..n |-> << Alphabet[((j - 1) \div NumLetters) + 1],
                     Alphabet[((j - 1) % NumLetters) + 1] >>]

\* Load of the word lists of LoadInputs, of the empty list and of lists that
\* take more than one call of ProcessWords
InitProcess ==
  /\ \E in_words \in LoadInputs \cup {ManyWords(n) : n \in ChunkLengths} :
       \E mem \in BeyondSets(in_words) :
         Loaded(in_words,
                IF in_words = << >> THEN 2 ELSE Len(in_words[1]), mem)
  /\ clues = << >>
  /\ error = NoError
  /\ InitResult /\ InitMulti /\ pc = "idle" /\ snap = NoSnap

\* the loop of WordleDriver::Process calls word_set.Process() until it
\* returns true
SpecProcess == InitProcess /\ [][ProcessStep]_vars /\ WF_vars(ProcessStep)

-----------------------------------------------------------------------------
(* The searches for the best pair and the best triple *)

NextSearch ==
  \/ ProcessStep
  \/ \E mode \in {"pairs", "triples"} : CommandAnalyze(mode)

SpecSearch == InitLoad /\ [][NextSearch]_vars

-----------------------------------------------------------------------------
(* Preprocessing a word list in the legacy engine *)

\* the numbers of words of the lists: none, few, and around the sizes where
\* words.size() / 85 becomes 1, 2 and 3
WordSetSizes == {0, 1, 20, 85, 86, 169, 170, 171, 255}

\* the command line driver with a list of one word, left as it is
InitAside ==
  /\ Loaded(<< << "a", "b" >> >>, 2, {})
  /\ clues = << >>
  /\ error = NoError
  /\ InitResult
  /\ multi = << >> /\ multi_words = << >>
  /\ sort_type = "" /\ out_words = << >>
  /\ search_mode = "" /\ searched = << >> /\ best_stats = NewGroupStats
  /\ pc = "idle" /\ snap = NoSnap

InitPreprocess ==
  /\ InitAside
  /\ \E num_words \in WordSetSizes : InitWordSet(num_words)
  /\ InitWeb(0)

\* Preprocess is called again until it returns true
SpecPreprocess ==
  InitPreprocess /\ [][Preprocess]_vars /\ WF_vars(Preprocess)

-----------------------------------------------------------------------------
(* Keys, clicks and frames of the web front end *)

\* the numbers of rows that are full when the events start
StartRows == {0, 1, max_tries - 1, max_tries}

InitGrid ==
  /\ InitAside
  /\ InitWordSet(0)
  /\ \E rows \in StartRows : InitWeb(rows)

\* the cells of the table that are clicked: the corners
NextWeb ==
  \/ \E key \in Keys : KeyEvent(key)
  \/ \E row \in {0, max_tries - 1} : \E col \in {0, WebWordSize - 1} :
       ClickEvent(row, col)
  \/ FrameEvent

SpecWeb == InitGrid /\ [][NextWeb]_vars

-----------------------------------------------------------------------------
(* Clues on a dictionary *)

NextEntropy ==
  \/ ProcessStep
  \/ \E w \in DictionaryWords :
       \E r \in PlayedResults(w) : CommandClue(w, r)

SpecEntropy == Init /\ [][NextEntropy]_vars

-----------------------------------------------------------------------------
(* Words and results as long as the ceiling and longer *)

\* some ids of the results as long as the ceiling
CeilingIDs ==
  {0, 1, 2, 1234567, CalcNumIDs(MAX_WORD_SIZE - 1),
   CalcNumIDs(MAX_WORD_SIZE) - 1}

\* Result objects of length 1, just under the ceiling and at the ceiling,
\* and "load <file> <size>" with a size at and above the ceiling for a file
\* of one short string
NextCeiling ==
  \/ ProcessStep
  \/ \E id \in 0..2 : MakeFromID(1, id)
  \/ \E id \in LongIDs : MakeFromID(MAX_WORD_SIZE - 1, id)
  \/ \E id \in CeilingIDs : MakeFromID(MAX_WORD_SIZE, id)
  \/ \E file_words \in [1..1 -> FileWords] :
       \E in_size \in {MAX_WORD_SIZE, MAX_WORD_SIZE + 1} :
         CommandLoad(file_words, in_size)

SpecCeiling == Init /\ [][NextCeiling]_vars

-----------------------------------------------------------------------------
(* Commit, pop, commit again *)

InitScenario ==
  InitDriver /\ InitResult /\ InitMulti /\ pc = "start" /\ snap = NoSnap

\* "clue <word> <result>" in the initial state
ScenarioCommit(clue_word, clue_result) ==
  /\ Started
  /\ pc = "start"
  /\ DoCommandClue(clue_word, clue_result)
  /\ pc' = "committed"
  /\ snap' = [word |-> clue_word, result_str |-> clue_result,
              options |-> cur_options', clues |-> clues']
  /\ UNCHANGED << result_vars, multi_vars, sort_vars, load_vars,
                  search_vars,
                  legacy_vars,
                  web_vars >>

\* "pop"
ScenarioPop ==
  /\ pc = "committed"
  /\ DoCommandPop
  /\ pc' = "popped"
  /\ UNCHANGED << result_vars, multi_vars, sort_vars, load_vars,
                  search_vars,
                  legacy_vars,
                  web_vars, snap >>

\* the same "clue <word> <result>" again
ScenarioRecommit ==
  /\ pc = "popped"
  /\ DoCommandClue(snap.word, snap.result_str)
  /\ pc' = "done"
  /\ UNCHANGED << result_vars, multi_vars, sort_vars, load_vars,
                  search_vars,
                  legacy_vars,
                  web_vars, snap >>

NextScenario ==
  \/ ProcessStep
  \/ \E w \in DictionaryWords :
       \E r \in Strings(ResultChars, word_size) : ScenarioCommit(w, r)
  \/ ScenarioPop
  \/ ScenarioRecommit

SpecScenario == InitScenario /\ [][NextScenario]_vars

-----------------------------------------------------------------------------
(* Joint scoring of a list of guesses *)

\* "analyze stats <word> ..." : multi is the MultiGroup as CalcStats finds it
CommandAnalyzeStats(in_words) ==
  /\ Started
  /\ multi_words = << >>
  /\ LET done == AnalyzeStats(Engine, in_words)
     IN  /\ id_map' = done.id_map
         /\ multi' = done.combo_ids
  /\ multi_words' = in_words
  /\ UNCHANGED << word_size, words, next_words, stats, pos_clues, let_clues,
                  cur_options, clues_ok, words_ok, stats_ok, words_processed,
                  beyond, driver_vars, result_vars, sort_vars, load_vars,
                  search_vars,
                  legacy_vars,
                  web_vars,
                  scenario_vars >>

NextMulti ==
  \/ ProcessStep
  \/ \E k \in 1..MaxGuesses :
       \E in_words \in [1..k -> DictionaryWords] :
         CommandAnalyzeStats(in_words)

SpecMulti == Init /\ [][NextMulti]_vars

\* the words given to the commands of NextAnalyze: the words of the
\* dictionary and a word that is not in it
AnalyzedWords == DictionaryWords \cup {[i \in 1..word_size |-> "b"]}

\* clues and "analyze stats <word>" in any order
NextAnalyze ==
  \/ ProcessStep
  \/ \E w \in AnalyzedWords :
       \E r \in PlayedResults(w) : CommandClue(w, r)
  \/ \E w \in AnalyzedWords : CommandAnalyzeStats(<< w >>)

SpecAnalyze == Init /\ [][NextAnalyze]_vars

-----------------------------------------------------------------------------
(* Properties of Result objects, checked under SpecResult *)

\* the number of positions of a word that hold the letter c
CountIn(word, c) == Cardinality({i \in 1..Len(word) : word[i] = c})

\* C1: encoding and decoding are mutually inverse.  Every Result object of
\* length L, whether built from a code or from a sequence of outcomes, holds
\* a length-L sequence over NOWHERE/ELSEWHERE/HERE and a code in [0, 3^L)
\* such that CalcID of the sequence is the code and LookupResult of the code
\* is the sequence; position 0 is the least significant base-3 digit.
C1_EncodeDecodeInverse ==
  result # DefaultResult =>
    LET L == Len(result.results)
    IN  /\ result.id \in 0..(CalcNumIDs(L) - 1)
        /\ \A i \in 1..L : result.results[i] \in {NOWHERE, ELSEWHERE, HERE}
        /\ CalcID(result.results) = result.id
        /\ LookupResult(L, result.id) = result.results
        /\ result.results[1] = result.id % 3

\* a Result of the greatest length built from the code 1234567
C1_Witness ==
  /\ Len(result.results) = MAX_WORD_SIZE - 1
  /\ result.id = 1234567
  /\ result.results[1] = ELSEWHERE

\* C2: Result(guess, answer) marks position i HERE iff guess[i] = answer[i];
\* for every letter c the guess positions holding c that are marked HERE or
\* ELSEWHERE are as many as min(count of c in guess, count of c in answer);
\* and among the positions holding c that are not HERE the ELSEWHERE marks go
\* to the leftmost ones, the rest being NOWHERE.
C2_CompareMarks ==
  guess # << >> =>
    LET r == result.results
        Marked(c) == {i \in 1..Len(guess) :
                        guess[i] = c /\ r[i] \in {HERE, ELSEWHERE}}
    IN  /\ Len(r) = Len(guess)
        /\ \A i \in 1..Len(guess) :
             /\ r[i] \in {NOWHERE, ELSEWHERE, HERE}
             /\ (r[i] = HERE) <=> (guess[i] = answer[i])
        /\ \A c \in Letters :
             Cardinality(Marked(c)) =
               Min({CountIn(guess, c), CountIn(answer, c)})
        /\ \A i \in 1..Len(guess) : \A j \in (i + 1)..Len(guess) :
             (guess[i] = guess[j] /\ r[i] = NOWHERE) => r[j] # ELSEWHERE

\* "aab" against "bca": the one a of the answer goes to the first a only
C2_Witness ==
  /\ guess = << "a", "a", "b" >>
  /\ answer = << "b", "c", "a" >>
  /\ result.results = << ELSEWHERE, NOWHERE, ELSEWHERE >>

\* C5 as stated: the result of comparing a guess against the answer w passes
\* IsValid evaluated on w.
C5_ValidOnAnswer == guess # << >> => IsValid(result, answer)

\* C5, amended: the result of comparing a guess against an answer passes
\* IsValid evaluated on the guess (the word ProcessWords hands to IsValid).
C5_ValidOnGuess == guess # << >> => IsValid(result, guess)

\* "cca" against "bab": NOWHERE, NOWHERE, ELSEWHERE, and the answer has the
\* same letter at the first and the last position
C5_Witness ==
  /\ guess = << "c", "c", "a" >>
  /\ answer = << "b", "a", "b" >>
  /\ result.results = << NOWHERE, NOWHERE, ELSEWHERE >>
  /\ IsValid(result, guess)

-----------------------------------------------------------------------------
(* Properties of the preprocessing, checked under SpecLoad *)

\* the ids of the words that answer the guess with this result code
Consistent(guess_word, code) ==
  {w \in 0..(Len(words) - 1) :
     ResultFromPair(guess_word, words[w + 1]).id = code}

\* the result codes of the word size
AllCodes == 0..(CalcNumIDs(word_size) - 1)

\* C3 as stated: for every dictionary word used as guess and every result
\* code that IsValid accepts for it, ProcessResultGroup returns exactly the
\* ids of the words w for which Result(guess, words[w]) has that code.
C3_ResultGroupExact ==
  clues_ok =>
    \A g \in 1..Len(words) : \A code \in AllCodes :
      LET res == ResultFromID(word_size, code)
      IN  IsValid(res, words[g]) =>
            ProcessResultGroup(Engine, words[g], res)
              = Consistent(words[g], code)

\* C4 as stated: once ProcessWords has finished, the partition stored for
\* each guess has one group per result code, every word id of [0, N) is in
\* exactly one group, the number of stored ids is N, GetGroup(code) is the
\* set of the words that answer the guess with that code, and the groups of
\* the codes that are invalid for the guess are empty.
C4_PartitionExact ==
  words_ok =>
    \A g \in 1..Len(words) :
      LET groups == next_words[g]
          N      == Len(words)
      IN  /\ Len(groups.starts) = CalcNumIDs(word_size)
          /\ groups.num_ids = N
          /\ Len(groups.ids) = N
          /\ \A w \in 0..(N - 1) :
               Cardinality({code \in AllCodes :
                              w \in GetGroup(groups, code)}) = 1
          /\ \A code \in AllCodes :
               /\ GetGroup(groups, code) = Consistent(words[g], code)
               /\ ~IsValid(ResultFromID(word_size, code), words[g])
                    => GetGroup(groups, code) = {}

-----------------------------------------------------------------------------
(* Properties of the command loop, checked under Spec *)

\* the code with which the word of id w answers the guess of index g
CodeOf(g, w) == ResultFromPair(words[g], words[w + 1]).id

\* the number of words of F that answer the guess of index g with the code
SizeIn(g, code, F) == Cardinality({w \in F : CodeOf(g, w) = code})

RECURSIVE SumSeq(_)
SumSeq(sq) == IF sq = << >> THEN 0 ELSE Head(sq) + SumSeq(Tail(sq))

\* the top of the clue stack is not a filter (a filter leaves the stats as
\* they were)
TopIsClue == clues = << >> \/ ~clues[Len(clues)].is_filter

\* C6 as stated: for every guess g and the non-empty CandidateSet F that
\* ProcessStats ran on, the stored stats have max_options = max over the
\* codes c of |group_g(c) /\ F|, ave_options * |F| = the sum of the squares
\* of these sizes, solve_p * |F| = the number of codes with size 1, and the
\* sizes sum to |F|; the unfiltered and the filtered CalcStats agree on the
\* full set.
C6_StatsExact ==
  /\ (stats_ok /\ TopIsClue /\ cur_options # {}) =>
       \A g \in 1..Len(words) :
         LET F == cur_options
         IN  /\ \E code \in AllCodes :
                  stats[g].max_options = SizeIn(g, code, F)
             /\ \A code \in AllCodes :
                  stats[g].max_options >= SizeIn(g, code, F)
             /\ stats[g].ave_options =
                  Ratio(Cardinality({p \in F \X F :
                                       CodeOf(g, p[1]) = CodeOf(g, p[2])}),
                        Cardinality(F))
             /\ stats[g].solve_p =
                  Ratio(Cardinality({code \in AllCodes :
                                       SizeIn(g, code, F) = 1}),
                        Cardinality(F))
             /\ SumSeq(stats[g].entropy.sizes) = Cardinality(F)
             /\ stats[g].entropy.total = Cardinality(F)
  /\ words_ok =>
       \A g \in 1..Len(words) :
         CalcStats(next_words[g])
           = CalcStatsFiltered(next_words[g], GetAllOptions(Engine))

\* C8: a step that does not shorten the clue stack (so every clue and filter
\* command, but no pop and no reset of a non-empty stack) leaves a
\* CandidateSet that is a subset of the one before it and of [0, N).
C8_CommitNeverGrows ==
  [][Len(clues') >= Len(clues) =>
       /\ cur_options' \subseteq cur_options
       /\ cur_options' \subseteq AllIDs(Len(words'))]_vars

\* a clue committed on top of a filter has narrowed the candidates to one
C8_Witness ==
  /\ Started
  /\ Len(clues) = 2
  /\ clues[1].is_filter
  /\ ~clues[2].is_filter
  /\ Cardinality(cur_options) = 1

\* the arguments of a stored filter string: its words between the spaces
RECURSIVE SplitArgs(_, _)
SplitArgs(str, cur) ==
  IF str = << >> THEN (IF cur = << >> THEN << >> ELSE << cur >>)
  ELSE IF Head(str) = " " THEN << cur >> \o SplitArgs(Tail(str), << >>)
  ELSE SplitArgs(Tail(str), Append(cur, Head(str)))

\* a set of candidates narrowed by one entry of the clue stack, as the
\* command that pushed the entry narrows it
NarrowedBy(ids, entry) ==
  IF entry.is_filter
  THEN LET req == FilterRequest(word_size, SplitArgs(entry.word, << >>))
       IN  FilterWords(Engine, ids, req.pattern, req.include, req.exclude)
  ELSE ids \cap GetGroup(next_words[id_map[entry.word] + 1], entry.result.id)

\* the full dictionary narrowed by the first k entries of the clue stack
RECURSIVE NarrowedByStack(_)
NarrowedByStack(k) ==
  IF k = 0 THEN GetAllOptions(Engine)
  ELSE NarrowedBy(NarrowedByStack(k - 1), clues[k])

\* C9 as stated: once preprocessing is complete the CandidateSet is the full
\* dictionary narrowed by every entry on the clue stack, in stack order,
\* clues and filters alike (so it is the full dictionary when the stack is
\* empty).
C9_CandidatesFollowStack ==
  Started => cur_options = NarrowedByStack(Len(clues))

-----------------------------------------------------------------------------
(* Property of joint scoring, checked under SpecMulti *)

\* C7 as stated: after MultiGroup::Add has run once per guess of the list,
\* two dictionary words have the same combined key iff they answer every
\* guess of the list with the same result code.
C7_JointKeyExact ==
  multi_words # << >> =>
    \A a \in 0..(Len(words) - 1) : \A b \in 0..(Len(words) - 1) :
      (multi[a + 1] = multi[b + 1])
        <=> \A k \in 1..Len(multi_words) :
              ResultFromPair(multi_words[k], words[a + 1]).id
                = ResultFromPair(multi_words[k], words[b + 1]).id

-----------------------------------------------------------------------------
(* Property of commit, pop, commit again, checked under SpecScenario *)

\* C10: from the initial state, for every dictionary guess and every result
\* string over N, E, H of the word length, committing the clue, popping it
\* and committing it again leaves the CandidateSet and the one-entry clue
\* stack that the first commit left.
C10_RecommitSame ==
  pc = "done" =>
    /\ cur_options = snap.options
    /\ clues = snap.clues
    /\ Len(clues) = 1

\* the clue "cca" NNE was committed, popped and committed again, and leaves
\* the two words "bab" and "aab"
C10_Witness ==
  /\ pc = "done"
  /\ snap.word = << "c", "c", "a" >>
  /\ snap.result_str = << "N", "N", "E" >>
  /\ cur_options = {1, 3}

-----------------------------------------------------------------------------
(* Commands that are not well formed, checked under Spec and SpecErrors *)

C12_MalformedPatternRejected ==
  [][\A args \in MalformedFilters :
       CommandFilter(args) => UNCHANGED << clues, cur_options >>]_vars

\* C13: a clue whose result string holds a character other than H, E and N
\* (in either case) is a hard parse error.  It is not turned into an outcome
\* code: no entry is pushed on the clue stack, so no Result whose id lies
\* outside 0 .. 3^L - 1 or is the id of a well-formed result string is kept,
\* and the current options stay as they were.
C13_BadResultIsParseError ==
  [][\A c \in BadResultClues :
       CommandClue(c[1], c[2]) => UNCHANGED << clues, cur_options >>]_vars

\* C14: the filter command is exact.  For a well-formed pattern of word_size
\* positions and include / exclude letters, the current options after the
\* command are exactly the words of the current options before it that have,
\* at each position, the pattern's letter, a letter of its bracketed set, or
\* anything under '.'; that hold each letter named k >= 1 times in include at
\* least k times; and that hold each letter of exclude exactly as often as
\* include names it (0 times when it does not).  One filter entry is pushed.
C14_FilterExact ==
  [][LET Lower == {Alphabet[i] : i \in 1..NumLetters}
         \* the letters the pattern allows at each position, from character i
         RECURSIVE Allowed(_, _)
         Allowed(pattern, i) ==
           IF i > Len(pattern) THEN << >>
           ELSE IF pattern[i] = "." THEN << Lower >> \o Allowed(pattern, i + 1)
           ELSE IF pattern[i] = "["
           THEN LET close == CHOOSE j \in (i + 1)..Len(pattern) :
                               /\ pattern[j] = "]"
                               /\ \A k \in (i + 1)..(j - 1) : pattern[k] # "]"
                IN  << {pattern[k] : k \in (i + 1)..(close - 1)} >>
                    \o Allowed(pattern, close + 1)
           ELSE << {pattern[i]} >> \o Allowed(pattern, i + 1)
         Fits(word, req) ==
           /\ \A p \in 1..word_size : word[p] \in Allowed(req.pattern, 1)[p]
           /\ \A c \in Lower :
                CountIn(req.include, c) >= 1
                  => CountIn(word, c) >= CountIn(req.include, c)
           /\ \A c \in Lower :
                CountIn(req.exclude, c) >= 1
                  => CountIn(word, c) = CountIn(req.include, c)
     IN  \A args \in FilterInputs \cup LongIncludes :
           CommandFilter(args) =>
             /\ cur_options' = {id \in cur_options :
                                  Fits(words[id + 1],
                                       FilterRequest(word_size, args))}
             /\ Len(clues') = Len(clues) + 1
             /\ clues'[Len(clues')].is_filter
             /\ SubSeq(clues', 1, Len(clues)) = clues]_vars

-----------------------------------------------------------------------------
(* The worked example and result strings, checked under SpecResult *)

\* C15 as stated: with word length 5, the guess "crane" compared against the
\* answer "slate" yields the outcomes N, E, N, N, H, and the Result id is the
\* encoding of that sequence (1 * 3 + 2 * 81).
C15_CraneSlateAsStated ==
  (guess = << "c", "r", "a", "n", "e" >> /\ answer = << "s", "l", "a", "t", "e" >>)
    => /\ result.results = << NOWHERE, ELSEWHERE, NOWHERE, NOWHERE, HERE >>
       /\ result.id = 165

\* C15: with word length 5, the guess "crane" compared against the answer
\* "slate" yields the outcomes N, N, H, N, H (the a and the e are in place,
\* c, r and n are not in the answer), and the Result id is the encoding of
\* that sequence (2 * 9 + 2 * 81).
C15_CraneSlate ==
  (guess = << "c", "r", "a", "n", "e" >> /\ answer = << "s", "l", "a", "t", "e" >>)
    => /\ result.results = << NOWHERE, NOWHERE, HERE, NOWHERE, HERE >>
       /\ result.id = 180

\* "crane" has been compared against "slate"
C15_Witness ==
  /\ guess = << "c", "r", "a", "n", "e" >>
  /\ answer = << "s", "l", "a", "t", "e" >>
  /\ Len(result.results) = 5

-----------------------------------------------------------------------------
(* Sorted listings, checked under SpecSort *)

\* C17 as stated: SortWords for each of the keys alpha, max, ave, info and
\* solve returns the ids in ascending order of that key (word text, worst-case
\* remaining, expected remaining, information, solve probability) and the r-
\* variant of each key returns them in descending order; the list is a
\* permutation of the ids of the set and the call changes neither the current
\* options nor any stored stats.
C17_SortAscending ==
  [][LET KeyOfName(type) ==
           CASE type = "r-alpha" -> "alpha" [] type = "r-max" -> "max"
             [] type = "r-ave" -> "ave" [] type = "r-info" -> "info"
             [] type = "r-solve" -> "solve"
         Before(a, b) ==
           \E k \in 1..word_size :
              /\ \A i \in 1..(k - 1) : a[i] = b[i]
              /\ ToID(a[k]) < ToID(b[k])
         KeyLess(key, id1, id2) ==
           CASE key = "alpha" -> Before(words[id1 + 1], words[id2 + 1])
             [] key = "max" ->
                  stats[id1 + 1].max_options < stats[id2 + 1].max_options
             [] key = "ave" ->
                  RatioLess(stats[id1 + 1].ave_options,
                            stats[id2 + 1].ave_options)
             [] key = "info" ->
                  EntropyLess(stats[id1 + 1].entropy, stats[id2 + 1].entropy)
             [] key = "solve" ->
                  RatioLess(stats[id1 + 1].solve_p, stats[id2 + 1].solve_p)
         Ascending(key, list) ==
           \A i \in 1..Len(list) : \A j \in (i + 1)..Len(list) :
              ~KeyLess(key, list[j], list[i])
         Descending(key, list) ==
           \A i \in 1..Len(list) : \A j \in (i + 1)..Len(list) :
              ~KeyLess(key, list[i], list[j])
         Listed(ids) ==
           error' = NoError =>
             /\ Len(out_words') = Cardinality(ids)
             /\ {out_words'[i] : i \in 1..Len(out_words')} = ids
             /\ IF sort_type' \in {"alpha", "max", "ave", "info", "solve"}
                THEN Ascending(sort_type', out_words')
                ELSE IF sort_type' \in {}
                THEN Descending(sort_type', out_words')
                ELSE IF sort_type' \in {"r-alpha", "r-max", "r-ave", "r-info",
                                        "r-solve"}
                THEN Descending(KeyOfName(sort_type'), out_words')
                ELSE Ascending(KeyOfName(sort_type'), out_words')
             /\ UNCHANGED << engine_vars, clues >>
     IN  \A type \in SortTypes \cup {"10", "size"} :
           /\ CommandWords(type) => Listed(cur_options)
           /\ CommandDict(type) => Listed(GetAllOptions(Engine))]_vars

\* C17: SortWords returns the ids in ascending order of the key for alpha
\* (word text), max (worst-case remaining) and ave (expected remaining), and
\* in descending order of the key for info (information) and solve (solve
\* probability); the r- variant of each key returns them in the opposite
\* direction (descending for r-alpha, r-max, r-ave, ascending for r-info,
\* r-solve).  The list is a permutation of the ids of the set and the call
\* changes neither the current options nor any stored stats.
C17_SortOrders ==
  [][LET KeyOfName(type) ==
           CASE type = "r-alpha" -> "alpha" [] type = "r-max" -> "max"
             [] type = "r-ave" -> "ave" [] type = "r-info" -> "info"
             [] type = "r-solve" -> "solve"
         Before(a, b) ==
           \E k \in 1..word_size :
              /\ \A i \in 1..(k - 1) : a[i] = b[i]
              /\ ToID(a[k]) < ToID(b[k])
         KeyLess(key, id1, id2) ==
           CASE key = "alpha" -> Before(words[id1 + 1], words[id2 + 1])
             [] key = "max" ->
                  stats[id1 + 1].max_options < stats[id2 + 1].max_options
             [] key = "ave" ->
                  RatioLess(stats[id1 + 1].ave_options,
                            stats[id2 + 1].ave_options)
             [] key = "info" ->
                  EntropyLess(stats[id1 + 1].entropy, stats[id2 + 1].entropy)
             [] key = "solve" ->
                  RatioLess(stats[id1 + 1].solve_p, stats[id2 + 1].solve_p)
         Ascending(key, list) ==
           \A i \in 1..Len(list) : \A j \in (i + 1)..Len(list) :
              ~KeyLess(key, list[j], list[i])
         Descending(key, list) ==
           \A i \in 1..Len(list) : \A j \in (i + 1)..Len(list) :
              ~KeyLess(key, list[i], list[j])
         Listed(ids) ==
           error' = NoError =>
             /\ Len(out_words') = Cardinality(ids)
             /\ {out_words'[i] : i \in 1..Len(out_words')} = ids
             /\ IF sort_type' \in {"alpha", "max", "ave"}
                THEN Ascending(sort_type', out_words')
                ELSE IF sort_type' \in {"info", "solve"}
                THEN Descending(sort_type', out_words')
                ELSE IF sort_type' \in {"r-alpha", "r-max", "r-ave"}
                THEN Descending(KeyOfName(sort_type'), out_words')
                ELSE Ascending(KeyOfName(sort_type'), out_words')
             /\ UNCHANGED << engine_vars, clues >>
     IN  \A type \in SortTypes \cup {"10", "size"} :
           /\ CommandWords(type) => Listed(cur_options)
           /\ CommandDict(type) => Listed(GetAllOptions(Engine))]_vars

\* the words were listed by information and the listing starts with a word
\* of more information than the word it ends with
C17_Witness ==
  /\ sort_type = "info"
  /\ Len(out_words) >= 3
  /\ EntropyLess(stats[out_words[Len(out_words)] + 1].entropy,
                 stats[out_words[1] + 1].entropy)

-----------------------------------------------------------------------------
(* The clue index, checked under SpecReload *)

\* C18: whenever ProcessClues has completed for the loaded dictionary, also
\* after another dictionary (of another word length or not) was loaded
\* through SetWordSize and Load, the index is exact: here[pos][letter] holds
\* the words with that letter at that position, at_least[letter][k] for k in
\* 1..4 the words with the letter at least k times, exactly[letter][k] for k
\* in 0..4 the words with the letter exactly k times; no bit of a dictionary
\* loaded before remains.
C18_IndexExact ==
  clues_ok =>
    /\ \A pos \in 1..word_size : \A l \in LetterIDs :
         pos_clues[pos][l]
           = {i \in AllIDs(Len(words)) : ToID(words[i + 1][pos]) = l}
    /\ \A l \in LetterIDs : \A k \in 1..MAX_LETTER_REPEAT :
         let_clues[l].at_least[k]
           = {i \in AllIDs(Len(words)) : LetterCount(words[i + 1], l) >= k}
    /\ \A l \in LetterIDs : \A k \in 0..MAX_LETTER_REPEAT :
         let_clues[l].exactly[k]
           = {i \in AllIDs(Len(words)) : LetterCount(words[i + 1], l) = k}

-----------------------------------------------------------------------------
(* The letter counts, checked under SpecLoad *)

\* C19: every access to the per-letter count index uses a count of at most
\* MAX_LETTER_REPEAT.  at_least[letter][k] and exactly[letter][k] with k > 4
\* are never read: for a dictionary word, a clue result or an include list
\* that holds one letter more than 4 times, what ProcessResultGroup and
\* FilterWords return is the same whatever lies past the arrays of the index.
C19_CountsClamped ==
  clues_ok =>
    \A mem \in SUBSET AllIDs(Len(words)) :
      LET e == [Engine EXCEPT !.beyond = mem]
      IN  /\ \A i \in 1..Len(words) :
               \A id \in 0..(CalcNumIDs(word_size) - 1) :
                 LET res == ResultFromID(word_size, id)
                 IN  IsValid(res, words[i]) =>
                       ProcessResultGroup(e, words[i], res)
                         = ProcessResultGroup(Engine, words[i], res)
          /\ \A include \in {Repeat("a", k) :
                                k \in 1..(MAX_LETTER_REPEAT + 1)} :
               FilterWords(e, GetAllOptions(e), Repeat(".", word_size),
                           include, << >>)
                 = FilterWords(Engine, GetAllOptions(Engine),
                               Repeat(".", word_size), include, << >>)

-----------------------------------------------------------------------------
(* Preprocessing, checked under SpecProcess *)

-----------------------------------------------------------------------------
(* Loading a word file, checked under SpecFile *)

\* C21: Load keeps exactly the input words that have the configured length,
\* are all lowercase and were not accepted before, and numbers them 0..N-1
\* in the order of their first appearance: id_map is a bijection between the
\* accepted words and 0..N-1 with id_map[words[i]] = i, the words are
\* pairwise distinct, and the three counters and the number of accepted
\* words add up to the number of input words.
C21_LoadKeepsValidWords ==
  LET Good(i) == /\ Len(loaded_words[i]) = word_size
                 /\ \A p \in 1..word_size :
                      \E l \in 1..NumLetters : Alphabet[l] = loaded_words[i][p]
      First(i) == Good(i) /\ \A j \in 1..(i - 1) :
                                loaded_words[j] # loaded_words[i]
      firsts   == {i \in 1..Len(loaded_words) : First(i)}
      N        == Len(words)
  IN  /\ N = Cardinality(firsts)
      /\ \A i \in firsts :
           words[Cardinality({j \in firsts : j < i}) + 1] = loaded_words[i]
      /\ DOMAIN id_map = {words[i] : i \in 1..N}
      /\ \A i \in 1..N : id_map[words[i]] = i - 1
      /\ \A i \in 1..N : \A j \in 1..N : i # j => words[i] # words[j]
      /\ load_counts.wrong_size_count + load_counts.invalid_char_count
           + load_counts.dup_count + N = Len(loaded_words)

\* a file with a word of another size, a word with a capital letter and a
\* repeated word has been loaded, and a word was accepted
C21_Witness ==
  /\ Len(words) >= 1
  /\ load_counts.wrong_size_count > 0
  /\ load_counts.invalid_char_count > 0
  /\ load_counts.dup_count > 0

-----------------------------------------------------------------------------
(* The searches, checked under SpecSearch *)

\* C22: the searches for the best pair and the best triple are exhaustive.
\* AnalyzePairs evaluates the joint stats of every unordered pair of
\* different words exactly once and AnalyzeTriples those of every unordered
\* triple exactly once, and at the end each best value (least ave_options,
\* least max_options, most entropy, most solve_p) is the optimum of its
\* metric over the combinations.
C22_SearchExhaustive ==
  search_mode # "" =>
    LET k      == IF search_mode = "pairs" THEN 2 ELSE 3
        all    == {c \in SUBSET AllIDs(Len(words)) : Cardinality(c) = k}
        Ids(i) == {searched[i][j] : j \in 1..Len(searched[i])}
        Of(c)  == JointStats(Engine, GetSorted(c))
    IN  /\ \A i \in 1..Len(searched) : Ids(i) \in all
        /\ \A c \in all :
             Cardinality({i \in 1..Len(searched) : Ids(i) = c}) = 1
        /\ \A c \in all :
             /\ best_stats.max_options <= Of(c).max_options
             /\ ~RatioLess(Of(c).ave_options, best_stats.ave_options)
             /\ ~EntropyLess(best_stats.entropy, Of(c).entropy)
             /\ ~RatioLess(best_stats.solve_p, Of(c).solve_p)

-----------------------------------------------------------------------------
(* The ceiling on the word length, checked under SpecCeiling *)

\* C23: word lengths are bounded by the ceiling 15.  No engine is left with
\* a word length above the ceiling and no table is built for one: such a
\* length is rejected with an error.  Every length from 1 up to and
\* including the ceiling can be encoded and decoded: Result(L, id) indexes
\* the per-length table in bounds and yields the L outcomes whose CalcID is
\* the id.
C23_LengthCeiling ==
  /\ word_size <= MAX_WORD_SIZE \/ error # NoError
  /\ Len(pos_clues) <= MAX_WORD_SIZE
  /\ lookup_size \in 1..MAX_WORD_SIZE =>
       /\ lookup_size < MAX_WORD_SIZE
       /\ Len(result.results) = lookup_size
       /\ CalcID(result.results) = result.id

-----------------------------------------------------------------------------
(* The entropy of a filtered partition, checked under SpecEntropy *)

-----------------------------------------------------------------------------
(* Joint scoring of one guess, checked under SpecAnalyze *)

\* C25: joint scoring of a list that holds one guess is the scoring of that
\* guess.  Whenever "analyze stats g" runs for a dictionary word g, before or
\* after clues have narrowed the candidates, the stats MultiGroup computes
\* (max_options, numerator and denominator of ave_options, number of groups
\* of one word) are the stats the engine holds for g over the current
\* candidates.
C25_JointOfOneIsSingle ==
  [][(multi_words = << >> /\ multi_words' # << >>
        /\ multi_words'[1] \in DictionaryWords) =>
       \E joint \in {MultiCalcStats(multi')} :
         \E single \in {stats[id_map[multi_words'[1]] + 1]} :
           /\ joint.max_options = single.max_options
           /\ joint.ave_options = single.ave_options
           /\ joint.solve_p[1] = single.solve_p[1]]_vars

-----------------------------------------------------------------------------
(* The code of a guess and an answer is valid for the guess, checked under
   SpecResult *)

\* C26: for all words guess and answer of one length, the code that
\* Result(guess, answer) produces is valid for the guess: it has the length
\* of the guess, and no position marked NOWHERE is followed by a later
\* position that holds the same guess letter and is marked ELSEWHERE, so
\* IsValid(guess) is true.  Hence the code that a dictionary word gives as
\* the answer to a dictionary guess is never one that ProcessWords skips as
\* invalid.
C26_ProducedCodeValid ==
  /\ guess # << >> =>
       /\ Len(result.results) = Len(guess)
       /\ \A pos \in 1..Len(guess) : \A pos2 \in (pos + 1)..Len(guess) :
            ~(/\ result.results[pos] = NOWHERE
              /\ result.results[pos2] = ELSEWHERE
              /\ guess[pos] = guess[pos2])
       /\ IsValid(result, guess)
  /\ \A i \in 1..Len(words) : \A j \in 1..Len(words) :
       IsValid(ResultFromPair(words[i], words[j]), words[i])

\* a guess that holds a letter twice, marked ELSEWHERE at the earlier
\* position and NOWHERE at the later one
C26_Witness ==
  /\ guess # << >>
  /\ \E pos \in 1..Len(guess) : \E pos2 \in (pos + 1)..Len(guess) :
       /\ guess[pos] = guess[pos2]
       /\ result.results[pos] = ELSEWHERE
       /\ result.results[pos2] = NOWHERE
  /\ IsValid(result, guess)

-----------------------------------------------------------------------------
(* Stats follow the candidates, checked under Spec *)

\* C27: once preprocessing is complete, after every command that changes the
\* candidates (clue, filter, pop, reset) has returned, the stats stored for
\* every word are the scoring of that word's partition against the current
\* candidates, as ProcessStats computes it, so that a sorted listing ranks by
\* stats of the current candidates.
C27_StatsFollowCandidates ==
  Started => stats = ProcessStats(Engine).stats

-----------------------------------------------------------------------------
(* The word index is written by loading only, checked under SpecAnalyze *)

\* C28: the map from words to indices changes only when a word list is
\* loaded.  After any sequence of clue and analyze commands HasWord(w) is
\* true iff w is a word of the loaded list, and the map sends every such word
\* to its own index; a query that names a word that is not in the dictionary
\* does not add it, and no clue for such a word is accepted afterwards.
C28_IndexOnlyFromLoad ==
  /\ DOMAIN id_map = DictionaryWords
  /\ \A i \in 1..Len(words) : id_map[words[i]] = i - 1
  /\ \A k \in 1..Len(clues) :
       ~clues[k].is_filter => clues[k].word \in DictionaryWords

-----------------------------------------------------------------------------
(* Preprocessing of the legacy engine, checked under SpecPreprocess *)

\* C29: in the legacy engine, for every number of words, calling Preprocess
\* again and again eventually returns true: the stages 0, 1, 2 and 3 each
\* complete after finitely many calls.  Every call of
\* Preprocess_IdentifyNextWords that returns false has advanced pp_id_next by
\* at least one word, and when the stage has completed every word was
\* analysed exactly once.
C29_LegacyPreprocessFinishes ==
  /\ <>(pp_returned)
  /\ [](pp_stage > 3 =>
          pp_analysed = [i \in 1..pp_size |-> i - 1])
  /\ [][(pp_stage = 3 /\ pp_stage' = 3) => pp_id_next' > pp_id_next]_vars

-----------------------------------------------------------------------------
(* The active cell of the web front end, checked under SpecWeb *)

\* C30: in the web front end, for any sequence of key presses and clicks,
\* every read or write of words[active_row][active_col] and of
\* status[active_row][active_col] in the key handlers and in DoFrame happens
\* with active_row < max_tries, active_row at most the number of leading
\* full rows, and active_col < word_size: ValidateActive, run at the start of
\* each key event and each frame, has restored these bounds before the cell
\* is accessed.
C30_ActiveCellInBounds ==
  \A k \in 1..Len(accessed) :
    /\ accessed[k].row < max_tries
    /\ accessed[k].row <= accessed[k].full
    /\ accessed[k].col < WebWordSize

\* a key handler used a cell of the last row after ValidateActive had
\* pulled active_row back from max_tries, with every row full
C30_Witness ==
  /\ Len(accessed) >= 1
  /\ accessed[1].was = max_tries
  /\ accessed[1].row = max_tries - 1
  /\ accessed[1].full = max_tries

====
